---- MODULE Spec2Model ----
(***************************************************************************)
(* Model of the WebVox browser SDK (InteractMet/api):                      *)
(*   - EventEmitter      (utils/EventEmitter.js)                           *)
(*   - SFUManager        (src/managers/SFUManager.js)                      *)
(*   - WebvoxClient      (src/WebvoxClient.js)                             *)
(* Each component has its own specification over the shared variables.     *)
(***************************************************************************)
EXTENDS Integers, Sequences, FiniteSets, TLC

\* ------------------------------------------------------------------------
\* Bounds
\* ------------------------------------------------------------------------
\* largest number of registrations held by the relay (all events together)
MaxRegs == 3
\* deepest nesting of emit() calls a re-emitting handler produces
MaxDepth == 2
\* largest number of once() wrappers alive at the same time
MaxOnce == 1
\* largest number of socket requests awaiting their acknowledgement
MaxPending == 2
\* largest number of relay subscriptions made on the room manager
MaxSubs == 1
\* largest number of sockets not yet closed that the session has made
MaxSockets == 2
\* largest number of calls the application leaves unacknowledged while it
\* negotiates media
MaxInFlight == 1

\* ------------------------------------------------------------------------
\* Inputs
\* ------------------------------------------------------------------------
\* event names used with the relay
Events == {"a", "b"}
\* arguments passed to emit()
Args == {1, 2}
\* bodies of the callbacks the application subscribes:
\*   n1      returns,                   thr     throws,
\*   offSelf calls off(E, itself),      offN1   calls off(E, n1),
\*   reemit  calls emit(E, arg) again,  clear   calls removeAllListeners(E),
\*   add     calls on(E, n1)
\* where E is the event the callback was subscribed to.
Kinds == {"n1", "thr", "offSelf", "offN1", "reemit", "clear", "add"}
\* the bodies subscribed to each event: event "b" only has plain listeners
KindsOf(ev) == IF ev = "a" THEN Kinds ELSE {"n1"}
\* the bodies handed to once() for each event
OnceKindsOf(ev) == IF ev = "a" THEN {"n1", "reemit"} ELSE {"n1"}

\* a function reference: id = 0 is the callback itself, id > 0 is the
\* onceCallback closure number id that once() built around callback k
Fn(k) == [k |-> k, id |-> 0]
Wrapper(k, id) == [k |-> k, id |-> id]

\* the catalogue of server events SFUManager relays (SFU_EVENTS)
SFU_EVENTS ==
  <<"participant-joined", "participant-left", "new-producer", "producer-closed",
    "producer-paused", "producer-resumed", "consumer-closed", "consumer-paused",
    "consumer-resumed", "audio-state-changed", "video-state-changed",
    "chat-message-received", "transcription-received", "translation-received",
    "participant-language-changed", "participant-speaking",
    "on-participant-translation-play">>
\* JavaScript null
Null == "<null>"
\* arguments handed to joinRoom(roomId, participantId, language)
RoomIds == {"room-1", "room-2"}
ParticipantIds == {"user-1", "user-2"}
\* (each participant asks for a room of its own)
JoinArgs == {<<"room-1", "user-1", "en">>, <<"room-2", "user-2", "en">>}
\* the joinRoom arguments and the acknowledgements used through the
\* session's room manager
ClientJoinArgs == {<<"room-1", "user-1", "en">>}
ClientResponses ==
  {[kind |-> "object", success |-> TRUE, error |-> Null],
   [kind |-> "object", success |-> FALSE, error |-> "server says no"]}
\* acknowledgement payloads the server sends: none at all (undefined), or an
\* object with a success flag and possibly an error field
Responses ==
  {[kind |-> "absent", success |-> FALSE, error |-> Null],
   [kind |-> "object", success |-> TRUE, error |-> Null],
   [kind |-> "object", success |-> FALSE, error |-> Null],
   [kind |-> "object", success |-> FALSE, error |-> "server says no"]}
\* relay event the application subscribes to on the room manager
SubscribedEvents == {"participant-joined"}
\* payloads the server pushes with an event: none at all, or an object
PushData == {Null, "payload-1"}
\* events the server pushes: two of the catalogue, one outside it
PushEvents == {"participant-joined", "participant-left", "server-notice"}
\* the direction handed to createTransport
Directions == {"send", "recv"}
\* the roomId handed to getRouterCapabilities: none, or a room
RouterRoomIds == {Null, "room-2"}
\* acknowledgement payloads of the negotiation requests: none at all, or an
\* object that may carry an error field and may carry an id (with the other
\* fields of a consumer; mediaKind stands for the payload's field kind)
NegotiationResponses ==
  {[kind |-> "absent", error |-> Null, id |-> Null, producerId |-> Null,
    mediaKind |-> Null, rtpParameters |-> Null, type |-> Null],
   [kind |-> "object", error |-> Null, id |-> Null, producerId |-> Null,
    mediaKind |-> Null, rtpParameters |-> Null, type |-> Null],
   [kind |-> "object", error |-> Null, id |-> "id-1", producerId |-> "producer-1",
    mediaKind |-> "audio", rtpParameters |-> "rtp-2", type |-> "simple"],
   [kind |-> "object", error |-> "server says no", id |-> Null, producerId |-> Null,
    mediaKind |-> Null, rtpParameters |-> Null, type |-> Null],
   [kind |-> "object", error |-> "server says no", id |-> "id-1", producerId |-> "producer-1",
    mediaKind |-> "audio", rtpParameters |-> "rtp-2", type |-> "simple"]}
\* values of config.apiKey: the key given at construction, or emptied later
ApiKeys == {"", "key-1"}
\* the values the application later assigns to config.apiKey
LaterApiKeys == {"", "key-2"}
\* the server's address and the paths requested
BaseURL == "http://localhost:4000"
Endpoints == {"/rooms"}
\* the data handed to post, put and patch: none, or an object
RequestData == {Null, "data-1"}
\* status codes the server answers with
Statuses == {200, 204, 404, 500}
\* decoded JSON payloads: an object without error field, or with one
Bodies == {[error |-> Null], [error |-> "not found"], [error |-> "Failed to fetch"]}
\* the messages of the TypeError fetch throws when the transport fails:
\* Chromium's, and Node's
FetchFailures == {"Failed to fetch", "fetch failed"}
\* messages a socket reports with connect_error
TransportMessages == {"xhr poll error"}

\* new ConnectionError(message, service)
ConnectionError(message, service) ==
  [type |-> "ConnectionError", message |-> message, service |-> service]

\* new Error(message)
PlainError(message) == [type |-> "Error", message |-> message, service |-> Null]

NoError == [type |-> Null, message |-> Null, service |-> Null]

VARIABLES
  events,     \* EventEmitter.events: Map event -> array of callbacks
  elast,      \* what the last relay call did and what it invoked
  isConnected,          \* SFUManager.isConnected
  currentRoom,          \* SFUManager.currentRoom
  currentParticipantId, \* SFUManager.currentParticipantId
  eventHandlers,        \* SFUManager.eventHandlers: Map event -> closure
  socketListeners,      \* listeners held by the socket, per event, in order
  pending,              \* requests emitted on the socket, not yet acknowledged
  slast,                \* what the last step did, if a room-manager call or callback
  socket,               \* WebvoxClient.socket: null or the number of a socket
  wvIsConnected,        \* WebvoxClient.isConnected
  sfu,                  \* WebvoxClient.sfu: null or the manager and its socket
  apiKey,               \* WebvoxClient.config.apiKey
  sockets,              \* every socket io() has opened, in order of creation
  clast                 \* what the last step did, if a session call or socket callback

sfuVars == <<isConnected, currentRoom, currentParticipantId, eventHandlers,
             socketListeners, pending, slast>>

\* the manager's fields, and the socket's, without the record of the last call
sfuFields == <<isConnected, currentRoom, currentParticipantId, eventHandlers,
               socketListeners, pending>>

\* the session's fields and the sockets, without the record of the last call
clientFields == <<socket, wvIsConnected, sfu, apiKey, sockets>>

clientVars == <<socket, wvIsConnected, sfu, apiKey, sockets, clast>>

vars == <<events, elast, isConnected, currentRoom, currentParticipantId,
          eventHandlers, socketListeners, pending, slast, clientVars>>

\* ------------------------------------------------------------------------
\* JavaScript Map and Array primitives
\* ------------------------------------------------------------------------
EmptyMap == [x \in {} |-> <<>>]

MapHas(m, key) == key \in DOMAIN m

MapSet(m, key, v) == [x \in (DOMAIN m) \cup {key} |-> IF x = key THEN v ELSE m[x]]

MapDelete(m, key) == [x \in (DOMAIN m) \ {key} |-> m[x]]

\* IndexOf with a fault: the index of the last match (lastIndexOf)
IndexOf_Last(arr, h) ==
  IF \E i \in 1..Len(arr) : arr[i] = h
  THEN (CHOOSE i \in 1..Len(arr) : arr[i] = h /\ \A j \in (i+1)..Len(arr) : arr[j] # h) - 1
  ELSE -1

\* Array.prototype.indexOf: 0-based index of the first ===-equal element, or -1
IndexOf(arr, h) ==
  IF \E i \in 1..Len(arr) : arr[i] = h
  THEN (CHOOSE i \in 1..Len(arr) : arr[i] = h /\ \A j \in 1..(i-1) : arr[j] # h) - 1
  ELSE -1

\* Array.prototype.splice(index, 1) with a 0-based index
Splice(arr, index) ==
  [j \in 1..(Len(arr) - 1) |-> IF j <= index THEN arr[j] ELSE arr[j + 1]]

\* the elements of an array
Range(seq) == {seq[i] : i \in 1..Len(seq)}

\* number of elements of arr equal to h
Count(arr, h) == Cardinality({i \in 1..Len(arr) : arr[i] = h})

\* listenerCount(event)
ListenerCount(m, ev) == IF MapHas(m, ev) THEN Len(m[ev]) ELSE 0

\* registrations held over all events
TotalRegs(m) ==
  LET RECURSIVE Sum(_)
      Sum(S) == IF S = {} THEN 0
                ELSE LET e == CHOOSE x \in S : TRUE IN Len(m[e]) + Sum(S \ {e})
  IN Sum(DOMAIN m)

\* onceCallback closures currently held by the registry
LiveWrapperIds(m) ==
  UNION {{m[e][i].id : i \in 1..Len(m[e])} : e \in DOMAIN m} \ {0}

\* ------------------------------------------------------------------------
\* EventEmitter: registry operations
\* ------------------------------------------------------------------------
\* on(event, callback): create the array if absent, then push
On(m, ev, h) ==
  LET m1 == IF ~MapHas(m, ev) THEN MapSet(m, ev, <<>>) ELSE m
  IN MapSet(m1, ev, Append(m1[ev], h))

\* Off with a fault: the test "index > 0" instead of "index !== -1"
Off_IndexPositive(m, ev, h) ==
  IF ~MapHas(m, ev) THEN m
  ELSE LET callbacks == m[ev]
           index == IndexOf(callbacks, h)
           spliced == IF index > 0 THEN Splice(callbacks, index) ELSE callbacks
       IN IF Len(spliced) = 0 THEN MapDelete(m, ev) ELSE MapSet(m, ev, spliced)

\* off(event, callback): splice the first match out of the array held by
\* the map, then delete the entry if that array is empty
Off(m, ev, h) ==
  IF ~MapHas(m, ev) THEN m
  ELSE LET callbacks == m[ev]
           index == IndexOf(callbacks, h)
           spliced == IF index # -1 THEN Splice(callbacks, index) ELSE callbacks
       IN IF Len(spliced) = 0 THEN MapDelete(m, ev) ELSE MapSet(m, ev, spliced)

\* removeAllListeners(event) with an event name
RemoveAllListeners(m, ev) == MapDelete(m, ev)

\* removeAllListeners() without an event name: events.clear()
ClearAll(m) == EmptyMap

\* ------------------------------------------------------------------------
\* EventEmitter: dispatch.  emit() runs callbacks.forEach over the array
\* object the map held when emit was entered.  A frame of the call stack
\* is one running forEach: k is its next index, len the length read when
\* forEach started.  While the map still holds that array (live) the frame
\* reads it through the map; once the entry is deleted the array can no
\* longer change and the frame keeps its contents in snap.
\* ------------------------------------------------------------------------
Frame(ev, arg, len, id) ==
  [ev |-> ev, arg |-> arg, k |-> 0, len |-> len, live |-> TRUE, snap |-> <<>>, id |-> id]

\* the entry of ev is deleted while its array held contents
Freeze(stack, ev, contents) ==
  [i \in DOMAIN stack |->
     IF stack[i].live /\ stack[i].ev = ev
     THEN [stack[i] EXCEPT !.live = FALSE, !.snap = contents]
     ELSE stack[i]]

\* this.on(...) called while a dispatch may be running
StOn(st, ev, h) == [st EXCEPT !.events = On(@, ev, h)]

\* this.off(...) called while a dispatch may be running
StOff(st, ev, h) ==
  LET m1 == Off(st.events, ev, h)
      removed == MapHas(st.events, ev) /\ IndexOf(st.events[ev], h) # -1
  IN [st EXCEPT !.events = m1,
                !.stack = IF MapHas(st.events, ev) /\ ~MapHas(m1, ev)
                          THEN Freeze(@, ev, <<>>) ELSE @,
                !.offs = IF removed
                         THEN Append(@, [ev |-> ev, h |-> h, at |-> Len(st.log)])
                         ELSE @]

\* this.removeAllListeners(event) called while a dispatch may be running
StRemoveAll(st, ev) ==
  [st EXCEPT !.events = RemoveAllListeners(@, ev),
             !.stack = IF MapHas(st.events, ev)
                       THEN Freeze(@, ev, st.events[ev]) ELSE @]

\* emit(event, arg) up to the start of forEach: false when there is no
\* entry, otherwise a new forEach over the entry's array
StEmit(st, ev, arg) ==
  IF ~MapHas(st.events, ev) THEN st
  ELSE LET id == Len(st.calls) + 1
       IN [st EXCEPT
             !.stack = Append(@, Frame(ev, arg, Len(st.events[ev]), id)),
             !.calls = Append(@, [ev |-> ev, arg |-> arg,
                                  start |-> st.events[ev]])]

\* the body of a subscribed callback of kind k, run for event ev
Body(st, k, ev, arg) ==
  CASE k = "n1"      -> st
    [] k = "thr"     -> [st EXCEPT !.exc = TRUE]
    [] k = "offSelf" -> StOff(st, ev, Fn("offSelf"))
    [] k = "offN1"   -> StOff(st, ev, Fn("n1"))
    [] k = "reemit"  -> IF Len(st.stack) < MaxDepth THEN StEmit(st, ev, arg) ELSE st
    [] k = "clear"   -> StRemoveAll(st, ev)
    [] k = "add"     -> IF TotalRegs(st.events) < MaxRegs
                        THEN StOn(st, ev, Fn("n1")) ELSE st

\* the closure built by once(): this.off(event, onceCallback); callback(...args)
OnceCallback(st, h, ev, arg) ==
  LET s1 == StOff(st, ev, h)
      s2 == [s1 EXCEPT !.ran = Append(@, [h |-> h, call |-> s1.stack[Len(s1.stack)].id])]
  IN Body(s2, h.k, ev, arg)

\* callback(...args) for the function reference h
Call(st, h, ev, arg) ==
  IF h.id = 0 THEN Body(st, h.k, ev, arg) ELSE OnceCallback(st, h, ev, arg)

\* try { callback(...args) } catch (error) { console.error(...) }
Catch(st) ==
  IF st.exc THEN [st EXCEPT !.exc = FALSE, !.caught = @ + 1] ELSE st

\* one iteration of the innermost running forEach (or its return)
Step(st) ==
  LET top == Len(st.stack)
      f == st.stack[top]
      cur == IF f.live THEN st.events[f.ev] ELSE f.snap
  IN IF f.k >= f.len THEN [st EXCEPT !.stack = SubSeq(@, 1, top - 1)]
     ELSE LET st1 == [st EXCEPT !.stack[top].k = @ + 1]
          IN IF f.k >= Len(cur) THEN st1
             ELSE LET h == cur[f.k + 1]
                      st2 == [st1 EXCEPT !.log = Append(@,
                                [h |-> h, arg |-> f.arg, call |-> f.id])]
                  IN Catch(Call(st2, h, f.ev, f.arg))

\* run until the outermost emit returns; an exception nobody caught
\* unwinds every frame and reaches the caller of emit
RECURSIVE Run(_)
Run(st) ==
  IF st.exc THEN [st EXCEPT !.stack = <<>>]
  ELSE IF st.stack = <<>> THEN st
  ELSE Run(Step(st))

\* emit(event, arg) called by the application
Emit(m, ev, arg) ==
  Run(StEmit([events |-> m, stack |-> <<>>, log |-> <<>>, calls |-> <<>>,
              offs |-> <<>>, ran |-> <<>>, exc |-> FALSE, caught |-> 0], ev, arg))

\* ------------------------------------------------------------------------
\* EventEmitter: calls made by the application (no dispatch is running)
\* ------------------------------------------------------------------------
NoFn == [k |-> "none", id |-> 0]

\* record of a relay call: its arguments, for off() the array of ev before
\* the call, its return value and, for emit, what the dispatch did
Did(op, ev, h, arg, ret, pre, st) ==
  [op |-> op, ev |-> ev, h |-> h, arg |-> arg, ret |-> ret, pre |-> pre,
   escaped |-> st.exc, log |-> st.log, calls |-> st.calls, offs |-> st.offs,
   ran |-> st.ran, caught |-> st.caught]

Idle == [exc |-> FALSE, log |-> <<>>, calls |-> <<>>, offs |-> <<>>, ran |-> <<>>,
         caught |-> 0]

\* new SFUManager(socket)
SfuConstructed ==
  /\ isConnected = FALSE
  /\ currentRoom = Null
  /\ currentParticipantId = Null
  /\ eventHandlers = EmptyMap
  /\ socketListeners = [e \in Range(SFU_EVENTS) |-> <<>>]
  /\ pending = <<>>

\* sockets are numbered from 1 in the order io() made them; 0 stands for
\* the null of WebvoxClient.socket
NoSocket == 0

\* WebvoxClient.sfu: null, or the manager made by new SFUManager(s)
NoSfu == [made |-> FALSE, socket |-> NoSocket]
NewSfu(s) == [made |-> TRUE, socket |-> s]

\* the session's fields
ClientSnapshot ==
  [socket |-> socket, isConnected |-> wvIsConnected, sfu |-> sfu,
   apiKey |-> apiKey, sockets |-> sockets]

\* record of a session call or socket callback: the socket concerned, what
\* became of the promise of connect() ("resolved", "rejected", "pending"),
\* the error it rejected with, the calls it made on the room manager and on
\* the socket, in order, and the session's fields before the step
CDid(op, s, settled, error, trace) ==
  [op |-> op, s |-> s, settled |-> settled, error |-> error, trace |-> trace,
   pre |-> ClientSnapshot]

\* no session call or socket callback was the last step
NoClientCall ==
  [op |-> "none", s |-> NoSocket, settled |-> "none", error |-> NoError,
   trace |-> <<>>,
   pre |-> [socket |-> NoSocket, isConnected |-> FALSE, sfu |-> NoSfu,
            apiKey |-> "key-1", sockets |-> <<>>]]

\* new WebvoxClient({apiKey}) with a non-empty key and no autoConnect
ClientConstructed ==
  /\ socket = NoSocket
  /\ wvIsConnected = FALSE
  /\ sfu = NoSfu
  /\ apiKey = "key-1"
  /\ sockets = <<>>
  /\ clast = NoClientCall

EmitterInit ==
  /\ events = EmptyMap
  /\ elast = Did("new", "a", NoFn, 0, TRUE, <<>>, Idle)
  /\ SfuConstructed
  /\ slast = [op |-> "new"]
  /\ ClientConstructed

EmOn(ev, h) ==
  /\ TotalRegs(events) < MaxRegs
  /\ events' = On(events, ev, h)
  /\ elast' = Did("on", ev, h, 0, TRUE, <<>>, Idle)
  /\ UNCHANGED <<sfuVars, clientVars>>

EmOff(ev, h) ==
  /\ events' = Off(events, ev, h)
  /\ elast' = Did("off", ev, h, 0, TRUE,
                  IF MapHas(events, ev) THEN events[ev] ELSE <<>>, Idle)
  /\ UNCHANGED <<sfuVars, clientVars>>

\* once(event, callback): a new closure, subscribed with on()
EmOnce(ev, k) ==
  /\ TotalRegs(events) < MaxRegs
  /\ \E id \in 1..MaxOnce :
       /\ id \notin LiveWrapperIds(events)
       /\ \A j \in 1..(id - 1) : j \in LiveWrapperIds(events)
       /\ events' = On(events, ev, Wrapper(k, id))
       /\ elast' = Did("once", ev, Wrapper(k, id), 0, TRUE, <<>>, Idle)
  /\ UNCHANGED <<sfuVars, clientVars>>

EmEmit(ev, arg) ==
  LET st == Emit(events, ev, arg)
  IN /\ events' = st.events
     /\ elast' = Did("emit", ev, NoFn, arg, MapHas(events, ev), <<>>, st)
     /\ UNCHANGED <<sfuVars, clientVars>>

EmRemoveAllListeners(ev) ==
  /\ events' = RemoveAllListeners(events, ev)
  /\ elast' = Did("removeAllListeners", ev, NoFn, 0, TRUE, <<>>, Idle)
  /\ UNCHANGED <<sfuVars, clientVars>>

EmClearAll ==
  /\ events' = ClearAll(events)
  /\ elast' = Did("clearAll", "a", NoFn, 0, TRUE, <<>>, Idle)
  /\ UNCHANGED <<sfuVars, clientVars>>

EmitterNext ==
  \/ \E ev \in Events : \E k \in KindsOf(ev) : EmOn(ev, Fn(k))
  \/ \E ev \in Events : \E k \in KindsOf(ev) : EmOff(ev, Fn(k))
  \/ \E ev \in Events : \E k \in OnceKindsOf(ev) : EmOnce(ev, k)
  \/ \E ev \in Events, arg \in Args : EmEmit(ev, arg)
  \/ \E ev \in Events : EmRemoveAllListeners(ev)
  \/ EmClearAll

SpecEmitter == EmitterInit /\ [][EmitterNext]_vars

\* ------------------------------------------------------------------------
\* Properties of the relay
\* ------------------------------------------------------------------------
\* the function references emit call number c of the last emit invoked, in order
InvokedBy(c) ==
  LET es == SelectSeq(elast.log, LAMBDA e : e.call = c)
  IN [i \in 1..Len(es) |-> es[i].h]

EmitCalls == 1..Len(elast.calls)

\* C1: every emit call invokes the handlers subscribed with on(), as they
\* stood when the call began, in registration order, each registration
\* exactly once, and passes them the emitted argument.
C1_OrderedOncePerEmit ==
  elast.op = "emit" =>
    /\ \A i \in 1..Len(elast.log) :
         elast.log[i].arg = elast.calls[elast.log[i].call].arg
    /\ \A c \in EmitCalls :
         (\A i \in 1..Len(elast.calls[c].start) : elast.calls[c].start[i].id = 0)
           => InvokedBy(c) = elast.calls[c].start

\* C2: when a handler removed a listener with off() during the dispatch,
\* every handler other than the removed ones that was registered when an
\* emit call began is invoked by that call once per registration.
C2_RemovalSkipsNobody ==
  (elast.op = "emit" /\ elast.offs # <<>>) =>
    \A c \in EmitCalls :
      \A h \in Range(elast.calls[c].start) \ {elast.offs[i].h : i \in 1..Len(elast.offs)} :
        Count(InvokedBy(c), h) = Count(elast.calls[c].start, h)

\* C3: the callback given to once() runs at most once, nested emits
\* included, and its wrapper has left the registry once it has run.
C3_OnceAtMostOnce ==
  elast.op = "emit" =>
    \A id \in 1..MaxOnce :
      /\ Cardinality({i \in 1..Len(elast.ran) : elast.ran[i].h.id = id}) <= 1
      /\ (\E i \in 1..Len(elast.ran) : elast.ran[i].h.id = id)
           => id \notin LiveWrapperIds(events)

\* C4: a handler registered exactly once that calls off(E, itself) while it
\* is dispatched raises nothing, is invoked at most once by each emit call,
\* has left the registry when the emit returns, and an emit call that
\* begins while it is not registered never invokes it.
C4_SelfRemovalSafe ==
  elast.op = "emit" =>
    /\ ~elast.escaped
    /\ \A c \in EmitCalls :
         /\ Count(elast.calls[c].start, Fn("offSelf")) = 0
              => Count(InvokedBy(c), Fn("offSelf")) = 0
         /\ Count(elast.calls[c].start, Fn("offSelf")) = 1
              => Count(InvokedBy(c), Fn("offSelf")) <= 1
    /\ (/\ elast.ret
        /\ Count(elast.calls[1].start, Fn("offSelf")) = 1
        /\ \E i \in 1..Len(elast.log) : elast.log[i].h = Fn("offSelf"))
         => (MapHas(events, elast.ev) => Count(events[elast.ev], Fn("offSelf")) = 0)

\* C4 witness: offSelf, registered once among other handlers, was dispatched
C4_Witness ==
  /\ elast.op = "emit"
  /\ elast.ret
  /\ Len(elast.calls[1].start) >= 2
  /\ Count(elast.calls[1].start, Fn("offSelf")) = 1
  /\ \E i \in 1..Len(elast.log) : elast.log[i].h = Fn("offSelf")

\* C5: a throwing handler never makes emit throw, emit returns true, and
\* every handler registered after a handler that threw is still invoked by
\* the same emit call.
C5_ThrowIsolated ==
  (elast.op = "emit" /\ elast.ret) =>
    /\ ~elast.escaped
    /\ \A c \in EmitCalls :
         LET start == elast.calls[c].start
         IN \A i \in 1..Len(start) :
              (start[i].k = "thr" /\ start[i] \in Range(InvokedBy(c)))
                => \A j \in (i + 1)..Len(start) : start[j] \in Range(InvokedBy(c))

\* C6: off() removes the first registration only and keeps the order of
\* the rest; no entry of the registry holds an empty array, and
\* listenerCount(E) > 0 exactly when E has an entry.
C6_OffAndNoEmptyEntry ==
  /\ \A e \in DOMAIN events : Len(events[e]) > 0
  /\ \A e \in Events : (ListenerCount(events, e) > 0) <=> (e \in DOMAIN events)
  /\ elast.op = "off" =>
       LET pre == elast.pre
           post == IF elast.ev \in DOMAIN events THEN events[elast.ev] ELSE <<>>
       IN IF elast.h \notin Range(pre) THEN post = pre
          ELSE \E i \in 1..Len(pre) :
                 /\ pre[i] = elast.h
                 /\ \A j \in 1..(i - 1) : pre[j] # elast.h
                 /\ post = SubSeq(pre, 1, i - 1) \o SubSeq(pre, i + 1, Len(pre))

\* C6 witness: off() took the first of two registrations of one handler,
\* which was not at the head of the array
C6_Witness ==
  /\ elast.op = "off"
  /\ Count(elast.pre, elast.h) = 2
  /\ elast.pre[1] # elast.h
  /\ events[elast.ev] = <<elast.pre[1], elast.h>>

\* ------------------------------------------------------------------------
\* SFUManager
\* ------------------------------------------------------------------------
\* a || b on strings, null being the only falsy value that occurs
OrElse(a, b) == IF a # Null THEN a ELSE b

\* truthiness of an acknowledgement payload and of its error field
Truthy(response) == response.kind = "object"

\* a request emitted with socket.emit(op, payload, callback)
Request(op, roomId, participantId, language) ==
  [op |-> op, roomId |-> roomId, participantId |-> participantId,
   language |-> language]

\* the pending requests without number i
Acked(reqs, i) == [j \in 1..(Len(reqs) - 1) |-> IF j < i THEN reqs[j] ELSE reqs[j + 1]]

\* the manager's fields and what the socket holds
Snapshot ==
  [isConnected |-> isConnected, currentRoom |-> currentRoom,
   currentParticipantId |-> currentParticipantId,
   eventHandlers |-> eventHandlers, socketListeners |-> socketListeners,
   pending |-> pending, events |-> events]

\* record of a call or callback: its request (for a callback: the request
\* acknowledged), the acknowledgement payload, what became of the promise
\* (settled: "resolved", "rejected", or "pending"), the value or error it
\* settled with, the intermediate states or events of the step (trace) and
\* the state before the step
SDid(op, req, response, settled, value, error) ==
  [op |-> op, req |-> req, response |-> response, settled |-> settled,
   value |-> value, error |-> error, trace |-> <<>>, pre |-> Snapshot]

NoRequest == Request(Null, Null, Null, Null)

NoResponse == [kind |-> "none", success |-> FALSE, error |-> Null]

\* getCurrentRoom()
GetCurrentRoom == currentRoom

\* getCurrentParticipantId()
GetCurrentParticipantId == currentParticipantId

\* socket.off(event, handler): the socket drops the first such listener
SocketOff(ls, event, handler) ==
  LET index == IndexOf(ls[event], handler)
  IN IF index # -1 THEN [ls EXCEPT ![event] = Splice(@, index)] ELSE ls

\* RemoveEventHandlers with a fault: the map is cleared, the socket keeps
\* its listeners
RemoveEventHandlers_OnlyClear(eh, ls) ==
  [eventHandlers |-> EmptyMap, socketListeners |-> ls]

\* _removeEventHandlers(): socket.off for every entry, then clear the map
RemoveEventHandlers(eh, ls) ==
  [eventHandlers |-> EmptyMap,
   socketListeners |->
     [e \in DOMAIN ls |-> IF MapHas(eh, e) THEN SocketOff(ls, e, eh[e])[e] ELSE ls[e]]]

\* the closures of one _setupEventHandlers() call are new function objects:
\* the least number no listener held by the socket carries
NewClosure(ls) ==
  LET used == UNION {Range(ls[e]) : e \in DOMAIN ls}
  IN CHOOSE n \in 1..(Cardinality(used) + 1) :
       n \notin used /\ \A m \in 1..(n - 1) : m \in used

\* SetupEventHandlers with a fault: the old handlers are not removed first
SetupEventHandlers_NoRemove(eh, ls) ==
  LET handler == NewClosure(ls)
  IN [eventHandlers |-> [e \in Range(SFU_EVENTS) |-> handler],
      socketListeners |->
        [e \in DOMAIN ls |->
           IF e \in Range(SFU_EVENTS) THEN Append(ls[e], handler) ELSE ls[e]]]

\* _setupEventHandlers(): remove the old handlers, then one new closure per
\* catalogued event, registered on the socket and remembered in the map
SetupEventHandlers(eh, ls) ==
  LET removed == RemoveEventHandlers(eh, ls)
      handler == NewClosure(removed.socketListeners)
  IN [eventHandlers |-> [e \in Range(SFU_EVENTS) |-> handler],
      socketListeners |->
        [e \in DOMAIN ls |->
           IF e \in Range(SFU_EVENTS)
           THEN Append(removed.socketListeners[e], handler)
           ELSE removed.socketListeners[e]]]

SfuInit ==
  /\ events = EmptyMap
  /\ elast = Did("new", "a", NoFn, 0, TRUE, <<>>, Idle)
  /\ SfuConstructed
  /\ slast = [op |-> "new", req |-> NoRequest, response |-> NoResponse,
              settled |-> "none", value |-> Null, error |-> NoError,
              trace |-> <<>>, pre |-> Snapshot]
  /\ ClientConstructed

\* SfuConnect with a fault: the isConnected test is missing
SfuConnect_NoGuard ==
  /\ Len(pending) < MaxPending
  /\ pending' = Append(pending, Request("connect-sfu", Null, Null, Null))
  /\ slast' = SDid("connect", Request("connect-sfu", Null, Null, Null),
                   NoResponse, "pending", Null, NoError)
  /\ clast' = NoClientCall
  /\ UNCHANGED <<clientFields, events, elast, isConnected, currentRoom, currentParticipantId,
                 eventHandlers, socketListeners>>

\* connect()
SfuConnect ==
  /\ IF isConnected
     THEN /\ slast' = SDid("connect", NoRequest, NoResponse, "resolved", Null, NoError)
          /\ UNCHANGED pending
     ELSE /\ Len(pending) < MaxPending
          /\ pending' = Append(pending, Request("connect-sfu", Null, Null, Null))
          /\ slast' = SDid("connect", Request("connect-sfu", Null, Null, Null),
                           NoResponse, "pending", Null, NoError)
  /\ clast' = NoClientCall
  /\ UNCHANGED <<clientFields, events, elast, isConnected, currentRoom, currentParticipantId,
                 eventHandlers, socketListeners>>

\* SfuConnectAck with a fault: the listeners are installed before the
\* success flag is read
SfuConnectAck_SetupFirst(i, response) ==
  LET setup == SetupEventHandlers(eventHandlers, socketListeners)
  IN /\ pending[i].op = "connect-sfu"
     /\ pending' = Acked(pending, i)
     /\ eventHandlers' = setup.eventHandlers
     /\ socketListeners' = setup.socketListeners
     /\ IF Truthy(response) /\ response.success
        THEN /\ isConnected' = TRUE
             /\ slast' = SDid("connectAck", pending[i], response, "resolved", Null, NoError)
        ELSE /\ slast' = SDid("connectAck", pending[i], response, "rejected", Null,
                              ConnectionError(OrElse(response.error, "SFU connection failed"),
                                              "SFU"))
             /\ UNCHANGED isConnected
     /\ clast' = NoClientCall
     /\ UNCHANGED <<clientFields, events, elast, currentRoom, currentParticipantId>>

\* the acknowledgement callback of 'connect-sfu'; reading response.success
\* of an absent payload throws inside the callback and settles nothing
SfuConnectAck(i, response) ==
  /\ pending[i].op = "connect-sfu"
  /\ pending' = Acked(pending, i)
  /\ IF ~Truthy(response)
     THEN /\ slast' = SDid("connectAck", pending[i], response, "pending", Null,
                           [type |-> "TypeError", message |-> Null, service |-> Null])
          /\ UNCHANGED <<isConnected, eventHandlers, socketListeners>>
     ELSE IF response.success
     THEN LET setup == SetupEventHandlers(eventHandlers, socketListeners)
          IN /\ isConnected' = TRUE
             /\ eventHandlers' = setup.eventHandlers
             /\ socketListeners' = setup.socketListeners
             /\ slast' = SDid("connectAck", pending[i], response, "resolved", Null, NoError)
     ELSE /\ slast' = SDid("connectAck", pending[i], response, "rejected", Null,
                           ConnectionError(OrElse(response.error, "SFU connection failed"),
                                           "SFU"))
          /\ UNCHANGED <<isConnected, eventHandlers, socketListeners>>
  /\ clast' = NoClientCall
  /\ UNCHANGED <<clientFields, events, elast, currentRoom, currentParticipantId>>

\* Disconnect with a fault: _removeEventHandlers() is not called
Disconnect_KeepsHandlers(m) ==
  LET s1 == [m EXCEPT !.isConnected = FALSE, !.currentRoom = Null,
                      !.currentParticipantId = Null]
      s3 == [s1 EXCEPT !.events = ClearAll(@)]
  IN <<s1, s1, s3>>

\* disconnect() statement by statement, from the fields m: the states after
\* the three assignments, after _removeEventHandlers() and after
\* removeAllListeners()
Disconnect(m) ==
  LET s1 == [m EXCEPT !.isConnected = FALSE, !.currentRoom = Null,
                      !.currentParticipantId = Null]
      removed == RemoveEventHandlers(s1.eventHandlers, s1.socketListeners)
      s2 == [s1 EXCEPT !.eventHandlers = removed.eventHandlers,
                       !.socketListeners = removed.socketListeners]
      s3 == [s2 EXCEPT !.events = ClearAll(@)]
  IN <<s1, s2, s3>>

\* the effect of disconnect() on the manager and on the relay
DisconnectManager ==
  LET steps == Disconnect(Snapshot)
      end == steps[Len(steps)]
  IN /\ isConnected' = end.isConnected
     /\ currentRoom' = end.currentRoom
     /\ currentParticipantId' = end.currentParticipantId
     /\ eventHandlers' = end.eventHandlers
     /\ socketListeners' = end.socketListeners
     /\ events' = end.events
     /\ slast' = [SDid("disconnect", NoRequest, NoResponse, "none", Null, NoError)
                    EXCEPT !.trace = steps]

\* disconnect() called by the application
SfuDisconnect ==
  /\ DisconnectManager
  /\ clast' = NoClientCall
  /\ UNCHANGED <<clientFields, elast, pending>>

\* SfuJoinRoom with a fault: the isConnected test is missing
SfuJoinRoom_NoGuard(roomId, participantId, language) ==
  /\ Len(pending) < MaxPending
  /\ pending' = Append(pending,
                  Request("join-room", roomId, participantId, language))
  /\ slast' = SDid("joinRoom",
                   Request("join-room", roomId, participantId, language),
                   NoResponse, "pending", Null, NoError)
  /\ clast' = NoClientCall
  /\ UNCHANGED <<clientFields, events, elast, isConnected, currentRoom, currentParticipantId,
                 eventHandlers, socketListeners>>

\* joinRoom(roomId, participantId, language)
SfuJoinRoom(roomId, participantId, language) ==
  /\ IF ~isConnected
     THEN /\ slast' = SDid("joinRoom", Request(Null, roomId, participantId, language),
                           NoResponse, "rejected", Null,
                           ConnectionError("Not connected to SFU. Call connect() first.",
                                           "SFU"))
          /\ UNCHANGED pending
     ELSE /\ Len(pending) < MaxPending
          /\ pending' = Append(pending,
                          Request("join-room", roomId, participantId, language))
          /\ slast' = SDid("joinRoom",
                           Request("join-room", roomId, participantId, language),
                           NoResponse, "pending", Null, NoError)
  /\ clast' = NoClientCall
  /\ UNCHANGED <<clientFields, events, elast, isConnected, currentRoom, currentParticipantId,
                 eventHandlers, socketListeners>>

\* SfuJoinAck with a fault: the participant id is taken from the wrong field
SfuJoinAck_WrongField(i, response) ==
  /\ pending[i].op = "join-room"
  /\ pending' = Acked(pending, i)
  /\ IF Truthy(response) /\ response.error = Null
     THEN /\ currentRoom' = pending[i].roomId
          /\ currentParticipantId' = pending[i].roomId
          /\ slast' = SDid("joinAck", pending[i], response, "resolved", response, NoError)
     ELSE /\ slast' = SDid("joinAck", pending[i], response, "rejected", Null,
                           PlainError(OrElse(response.error, "Failed to join room")))
          /\ UNCHANGED <<currentRoom, currentParticipantId>>
  /\ clast' = NoClientCall
  /\ UNCHANGED <<clientFields, events, elast, isConnected, eventHandlers, socketListeners>>

\* SfuJoinAck with a fault: an error acknowledgement clears the room
SfuJoinAck_ClearsOnError(i, response) ==
  /\ pending[i].op = "join-room"
  /\ pending' = Acked(pending, i)
  /\ IF Truthy(response) /\ response.error = Null
     THEN /\ currentRoom' = pending[i].roomId
          /\ currentParticipantId' = pending[i].participantId
          /\ slast' = SDid("joinAck", pending[i], response, "resolved", response, NoError)
     ELSE /\ slast' = SDid("joinAck", pending[i], response, "rejected", Null,
                           PlainError(OrElse(response.error, "Failed to join room")))
          /\ currentRoom' = Null
          /\ currentParticipantId' = Null
  /\ clast' = NoClientCall
  /\ UNCHANGED <<clientFields, events, elast, isConnected, eventHandlers, socketListeners>>

\* the acknowledgement callback of 'join-room'
SfuJoinAck(i, response) ==
  /\ pending[i].op = "join-room"
  /\ pending' = Acked(pending, i)
  /\ IF Truthy(response) /\ response.error = Null
     THEN /\ currentRoom' = pending[i].roomId
          /\ currentParticipantId' = pending[i].participantId
          /\ slast' = SDid("joinAck", pending[i], response, "resolved", response, NoError)
     ELSE /\ slast' = SDid("joinAck", pending[i], response, "rejected", Null,
                           PlainError(OrElse(response.error, "Failed to join room")))
          /\ UNCHANGED <<currentRoom, currentParticipantId>>
  /\ clast' = NoClientCall
  /\ UNCHANGED <<clientFields, events, elast, isConnected, eventHandlers, socketListeners>>

\* SfuLeaveRoom with a fault: the currentRoom test is missing
SfuLeaveRoom_NoGuard ==
  /\ Len(pending) < MaxPending
  /\ pending' = Append(pending,
                  Request("leave-room", currentRoom, currentParticipantId, Null))
  /\ slast' = SDid("leaveRoom",
                   Request("leave-room", currentRoom, currentParticipantId, Null),
                   NoResponse, "pending", Null, NoError)
  /\ clast' = NoClientCall
  /\ UNCHANGED <<clientFields, events, elast, isConnected, currentRoom, currentParticipantId,
                 eventHandlers, socketListeners>>

\* leaveRoom()
SfuLeaveRoom ==
  /\ IF currentRoom = Null
     THEN /\ slast' = SDid("leaveRoom", NoRequest, NoResponse, "resolved", Null, NoError)
          /\ UNCHANGED pending
     ELSE /\ Len(pending) < MaxPending
          /\ pending' = Append(pending,
                          Request("leave-room", currentRoom, currentParticipantId, Null))
          /\ slast' = SDid("leaveRoom",
                           Request("leave-room", currentRoom, currentParticipantId, Null),
                           NoResponse, "pending", Null, NoError)
  /\ clast' = NoClientCall
  /\ UNCHANGED <<clientFields, events, elast, isConnected, currentRoom, currentParticipantId,
                 eventHandlers, socketListeners>>

\* SfuLeaveAck with a fault: only the room is cleared
SfuLeaveAck_KeepsParticipant(i, response) ==
  /\ pending[i].op = "leave-room"
  /\ pending' = Acked(pending, i)
  /\ currentRoom' = Null
  /\ slast' = SDid("leaveAck", pending[i], response, "resolved", response, NoError)
  /\ clast' = NoClientCall
  /\ UNCHANGED <<clientFields, events, elast, isConnected, currentParticipantId, eventHandlers,
                 socketListeners>>

\* SfuLeaveAck with a fault: an error acknowledgement clears nothing and rejects
SfuLeaveAck_OnlyOnSuccess(i, response) ==
  /\ pending[i].op = "leave-room"
  /\ pending' = Acked(pending, i)
  /\ IF Truthy(response) /\ response.error # Null
     THEN /\ slast' = SDid("leaveAck", pending[i], response, "rejected", Null,
                           PlainError(response.error))
          /\ UNCHANGED <<currentRoom, currentParticipantId>>
     ELSE /\ currentRoom' = Null
          /\ currentParticipantId' = Null
          /\ slast' = SDid("leaveAck", pending[i], response, "resolved", response, NoError)
  /\ clast' = NoClientCall
  /\ UNCHANGED <<clientFields, events, elast, isConnected, eventHandlers, socketListeners>>

\* the acknowledgement callback of 'leave-room'
SfuLeaveAck(i, response) ==
  /\ pending[i].op = "leave-room"
  /\ pending' = Acked(pending, i)
  /\ currentRoom' = Null
  /\ currentParticipantId' = Null
  /\ slast' = SDid("leaveAck", pending[i], response, "resolved", response, NoError)
  /\ clast' = NoClientCall
  /\ UNCHANGED <<clientFields, events, elast, isConnected, eventHandlers, socketListeners>>

\* the application subscribes to a relayed event: sfu.on(event, callback)
SfuSubscribe(ev) ==
  /\ TotalRegs(events) < MaxSubs
  /\ events' = On(events, ev, Fn("n1"))
  /\ slast' = SDid("on", NoRequest, NoResponse, "none", Null, NoError)
  /\ clast' = NoClientCall
  /\ UNCHANGED <<clientFields, elast, isConnected, currentRoom, currentParticipantId,
                 eventHandlers, socketListeners, pending>>

\* _logSfuEvent(event, data) throws a TypeError: the branch of the event
\* reads a property of data without testing data, and data is absent
LogThrows(event, data) ==
  /\ data = Null
  /\ event \notin {"participant-left", "consumer-closed", "consumer-paused",
                   "consumer-resumed"}
  /\ event \in Range(SFU_EVENTS)

\* the closure installed for event runs: _logSfuEvent, then this.emit;
\* acc carries the relay's map, the events republished so far and the
\* exception that left a closure, after which the socket calls no other
\* listener
Handler(acc, event, data) ==
  IF acc.error # NoError THEN acc
  ELSE IF LogThrows(event, data)
  THEN [acc EXCEPT !.error = [type |-> "TypeError", message |-> Null, service |-> Null]]
  ELSE LET st == Emit(acc.events, event, data)
       IN [acc EXCEPT !.events = st.events,
                      !.trace = Append(@, [ev |-> event, data |-> data,
                                           invoked |-> Len(st.log)])]

\* the socket calls its n listeners of event one after the other
RECURSIVE Deliver(_, _, _, _)
Deliver(acc, n, event, data) ==
  IF n = 0 THEN acc ELSE Deliver(Handler(acc, event, data), n - 1, event, data)

\* the server pushes event with payload data over the socket
SfuPush(event, data) ==
  LET n == IF event \in DOMAIN socketListeners THEN Len(socketListeners[event]) ELSE 0
      out == Deliver([events |-> events, trace |-> <<>>, error |-> NoError],
                     n, event, data)
  IN /\ events' = out.events
     /\ slast' = [SDid("push", Request(event, Null, Null, Null), NoResponse, "none",
                       data, out.error) EXCEPT !.trace = out.trace]
     /\ clast' = NoClientCall
     /\ UNCHANGED <<clientFields, elast, isConnected, currentRoom, currentParticipantId,
                    eventHandlers, socketListeners, pending>>

SfuNext ==
  \/ SfuConnect
  \/ \E i \in 1..Len(pending), response \in Responses : SfuConnectAck(i, response)
  \/ SfuDisconnect
  \/ \E a \in JoinArgs : SfuJoinRoom(a[1], a[2], a[3])
  \/ \E i \in 1..Len(pending), response \in Responses : SfuJoinAck(i, response)
  \/ SfuLeaveRoom
  \/ \E i \in 1..Len(pending), response \in Responses : SfuLeaveAck(i, response)
  \/ \E ev \in SubscribedEvents : SfuSubscribe(ev)
  \/ \E event \in PushEvents, data \in PushData : SfuPush(event, data)

SpecSfu == SfuInit /\ [][SfuNext]_vars

\* ------------------------------------------------------------------------
\* SFUManager: media negotiation and notifications
\* ------------------------------------------------------------------------
\* socket.emit(op, payload, ...): the message put on the socket
Message(op, payload) == [op |-> op, payload |-> payload]

\* a message emitted without payload
NoPayload == [none |-> TRUE]

\* record of a call of the manager: its arguments (in trace), the message it
\* emitted (NoRequest when it emitted none) and what became of its promise
Called(name, args, req, settled, error) ==
  [SDid(name, req, NoResponse, settled, Null, error) EXCEPT !.trace = <<args>>]

\* new Promise(...) around socket.emit(op, payload, callback): the message
\* goes out and its callback waits for the acknowledgement
EmitWithAck(name, args, req) ==
  /\ Len(pending) < MaxPending
  /\ pending' = Append(pending, req)
  /\ slast' = Called(name, args, req, "pending", NoError)
  /\ clast' = NoClientCall
  /\ UNCHANGED <<clientFields, events, elast, isConnected, currentRoom, currentParticipantId,
                 eventHandlers, socketListeners>>

\* an async method throws before it emits: its promise is rejected
ThrowBeforeEmit(name, args, error) ==
  /\ slast' = Called(name, args, NoRequest, "rejected", error)
  /\ clast' = NoClientCall
  /\ UNCHANGED <<clientFields, events, elast, sfuFields>>

\* socket.emit(op, payload) with no callback: the message goes out and
\* nothing waits for an answer
EmitOneWay(name, args, req) ==
  /\ slast' = Called(name, args, req, "none", NoError)
  /\ clast' = NoClientCall
  /\ UNCHANGED <<clientFields, events, elast, sfuFields>>

\* a notification returns before it emits
ReturnEarly(name, args) ==
  /\ slast' = Called(name, args, NoRequest, "none", NoError)
  /\ clast' = NoClientCall
  /\ UNCHANGED <<clientFields, events, elast, sfuFields>>

\* the acknowledgement callback of request i calls resolve(value)
Resolve(name, i, response, value) ==
  /\ pending' = Acked(pending, i)
  /\ slast' = SDid(name, pending[i], response, "resolved", value, NoError)
  /\ clast' = NoClientCall
  /\ UNCHANGED <<clientFields, events, elast, isConnected, currentRoom, currentParticipantId,
                 eventHandlers, socketListeners>>

\* the acknowledgement callback of request i calls reject(new Error(message))
Reject(name, i, response, message) ==
  /\ pending' = Acked(pending, i)
  /\ slast' = SDid(name, pending[i], response, "rejected", Null, PlainError(message))
  /\ clast' = NoClientCall
  /\ UNCHANGED <<clientFields, events, elast, isConnected, currentRoom, currentParticipantId,
                 eventHandlers, socketListeners>>

\* SfuGetRouterCapabilities with a fault: the current room goes before the
\* roomId given
SfuGetRouterCapabilities_CurrentFirst(roomId) ==
  LET targetRoomId == OrElse(currentRoom, roomId)
  IN IF targetRoomId = Null
     THEN ThrowBeforeEmit("getRouterCapabilities", <<roomId>>,
                          PlainError("Room ID is required to get router capabilities"))
     ELSE EmitWithAck("getRouterCapabilities", <<roomId>>,
                      Message("get-router-capabilities", [roomId |-> targetRoomId]))

\* getRouterCapabilities(roomId)
SfuGetRouterCapabilities(roomId) ==
  LET targetRoomId == OrElse(roomId, currentRoom)
  IN IF targetRoomId = Null
     THEN ThrowBeforeEmit("getRouterCapabilities", <<roomId>>,
                          PlainError("Room ID is required to get router capabilities"))
     ELSE EmitWithAck("getRouterCapabilities", <<roomId>>,
                      Message("get-router-capabilities", [roomId |-> targetRoomId]))

\* the acknowledgement callback of 'get-router-capabilities'
SfuGetRouterCapabilitiesAck(i, response) ==
  /\ pending[i].op = "get-router-capabilities"
  /\ IF Truthy(response) /\ response.error = Null
     THEN Resolve("getRouterCapabilitiesAck", i, response, response)
     ELSE Reject("getRouterCapabilitiesAck", i, response,
                 OrElse(response.error, "Failed to get router capabilities"))

\* setRtpCapabilities(rtpCapabilities)
SfuSetRtpCapabilities(rtpCapabilities) ==
  EmitWithAck("setRtpCapabilities", <<rtpCapabilities>>,
              Message("set-rtp-capabilities", [rtpCapabilities |-> rtpCapabilities]))

\* SfuSetRtpCapabilitiesAck with a fault: an absent payload is a failure
SfuSetRtpCapabilitiesAck_NeedsPayload(i, response) ==
  /\ pending[i].op = "set-rtp-capabilities"
  /\ IF Truthy(response) /\ response.error = Null
     THEN Resolve("setRtpCapabilitiesAck", i, response, response)
     ELSE Reject("setRtpCapabilitiesAck", i, response,
                 OrElse(response.error, "Failed to set RTP capabilities"))

\* the acknowledgement callback of 'set-rtp-capabilities'
SfuSetRtpCapabilitiesAck(i, response) ==
  /\ pending[i].op = "set-rtp-capabilities"
  /\ IF ~Truthy(response) \/ response.error = Null
     THEN Resolve("setRtpCapabilitiesAck", i, response, response)
     ELSE Reject("setRtpCapabilitiesAck", i, response, response.error)

\* SfuCreateTransport with a fault: the field of the request is named
\* direction
SfuCreateTransport_DirectionField(direction) ==
  EmitWithAck("createTransport", <<direction>>,
              Message("create-transport", [direction |-> direction]))

\* createTransport(direction)
SfuCreateTransport(direction) ==
  EmitWithAck("createTransport", <<direction>>,
              Message("create-transport", [type |-> direction]))

\* the acknowledgement callback of 'create-transport'
SfuCreateTransportAck(i, response) ==
  /\ pending[i].op = "create-transport"
  /\ IF Truthy(response) /\ response.error = Null
     THEN Resolve("createTransportAck", i, response, response)
     ELSE Reject("createTransportAck", i, response,
                 OrElse(response.error, "Failed to create transport"))

\* connectTransport(transportId, dtlsParameters)
SfuConnectTransport(transportId, dtlsParameters) ==
  EmitWithAck("connectTransport", <<transportId, dtlsParameters>>,
              Message("connect-transport",
                      [transportId |-> transportId, dtlsParameters |-> dtlsParameters]))

\* the acknowledgement callback of 'connect-transport'
SfuConnectTransportAck(i, response) ==
  /\ pending[i].op = "connect-transport"
  /\ IF ~Truthy(response) \/ response.error = Null
     THEN Resolve("connectTransportAck", i, response, response)
     ELSE Reject("connectTransportAck", i, response, response.error)

\* createProducer(transportId, kind, rtpParameters, appData = {})
SfuCreateProducer(transportId, kind, rtpParameters, appData) ==
  EmitWithAck("createProducer", <<transportId, kind, rtpParameters, appData>>,
              Message("create-producer",
                      [transportId |-> transportId, kind |-> kind,
                       rtpParameters |-> rtpParameters,
                       appData |-> OrElse(appData, "{}")]))

\* SfuCreateProducerAck with a fault: the payload is passed through
SfuCreateProducerAck_PassThrough(i, response) ==
  /\ pending[i].op = "create-producer"
  /\ IF Truthy(response) /\ response.id # Null
     THEN Resolve("createProducerAck", i, response, response)
     ELSE Reject("createProducerAck", i, response,
                 OrElse(response.error, "Failed to create producer"))

\* the acknowledgement callback of 'create-producer'
SfuCreateProducerAck(i, response) ==
  /\ pending[i].op = "create-producer"
  /\ IF Truthy(response) /\ response.id # Null
     THEN Resolve("createProducerAck", i, response, [producerId |-> response.id])
     ELSE Reject("createProducerAck", i, response,
                 OrElse(response.error, "Failed to create producer"))

\* createConsumer(producerParticipantId, producerId)
SfuCreateConsumer(producerParticipantId, producerId) ==
  EmitWithAck("createConsumer", <<producerParticipantId, producerId>>,
              Message("create-consumer",
                      [producerParticipantId |-> producerParticipantId,
                       producerId |-> producerId]))

\* the acknowledgement callback of 'create-consumer'
SfuCreateConsumerAck(i, response) ==
  /\ pending[i].op = "create-consumer"
  /\ IF Truthy(response) /\ response.id # Null
     THEN Resolve("createConsumerAck", i, response,
                  [consumerId |-> response.id, producerId |-> response.producerId,
                   kind |-> response.mediaKind, rtpParameters |-> response.rtpParameters,
                   type |-> response.type])
     ELSE Reject("createConsumerAck", i, response,
                 OrElse(response.error, "Failed to create consumer"))

\* pauseProducer(producerId)
SfuPauseProducer(producerId) ==
  EmitWithAck("pauseProducer", <<producerId>>,
              Message("pause-producer", [producerId |-> producerId]))

\* the acknowledgement callback of 'pause-producer'
SfuPauseProducerAck(i, response) ==
  /\ pending[i].op = "pause-producer"
  /\ Resolve("pauseProducerAck", i, response, response)

\* resumeProducer(producerId)
SfuResumeProducer(producerId) ==
  EmitWithAck("resumeProducer", <<producerId>>,
              Message("resume-producer", [producerId |-> producerId]))

\* the acknowledgement callback of 'resume-producer'
SfuResumeProducerAck(i, response) ==
  /\ pending[i].op = "resume-producer"
  /\ Resolve("resumeProducerAck", i, response, response)

\* closeProducer(producerId)
SfuCloseProducer(producerId) ==
  EmitWithAck("closeProducer", <<producerId>>,
              Message("close-producer", [producerId |-> producerId]))

\* the acknowledgement callback of 'close-producer'
SfuCloseProducerAck(i, response) ==
  /\ pending[i].op = "close-producer"
  /\ Resolve("closeProducerAck", i, response, response)

\* getRoomParticipants()
SfuGetRoomParticipants ==
  IF currentRoom = Null
  THEN ThrowBeforeEmit("getRoomParticipants", <<>>, PlainError("Not in a room"))
  ELSE EmitWithAck("getRoomParticipants", <<>>, Message("room-participants", NoPayload))

\* the acknowledgement callback of 'room-participants'
SfuGetRoomParticipantsAck(i, response) ==
  /\ pending[i].op = "room-participants"
  /\ IF Truthy(response) /\ response.error = Null
     THEN Resolve("getRoomParticipantsAck", i, response, response)
     ELSE Reject("getRoomParticipantsAck", i, response,
                 OrElse(response.error, "Failed to get room participants"))

\* setAudioState(muted)
SfuSetAudioState(muted) ==
  EmitOneWay("setAudioState", <<muted>>, Message("audio-state-changed", [muted |-> muted]))

\* setVideoState(muted)
SfuSetVideoState(muted) ==
  EmitOneWay("setVideoState", <<muted>>, Message("video-state-changed", [muted |-> muted]))

\* sendChatMessage(message)
SfuSendChatMessage(message) ==
  IF currentRoom = Null THEN ReturnEarly("sendChatMessage", <<message>>)
  ELSE EmitOneWay("sendChatMessage", <<message>>,
                  Message("send-chat-message", [message |-> message]))

\* broadcastTranscript(text, isFinal = false, language = 'en')
SfuBroadcastTranscript(text, isFinal, language) ==
  IF currentRoom = Null THEN ReturnEarly("broadcastTranscript", <<text, isFinal, language>>)
  ELSE EmitOneWay("broadcastTranscript", <<text, isFinal, language>>,
                  Message("broadcast-transcript",
                          [roomId |-> currentRoom, participantId |-> currentParticipantId,
                           transcript |-> text, text |-> text,
                           isFinal |-> OrElse(isFinal, "false"),
                           language |-> OrElse(language, "en")]))

\* sendTranslation(text, sourceLanguage, targetLanguage)
SfuSendTranslation(text, sourceLanguage, targetLanguage) ==
  IF currentRoom = Null
  THEN ReturnEarly("sendTranslation", <<text, sourceLanguage, targetLanguage>>)
  ELSE EmitOneWay("sendTranslation", <<text, sourceLanguage, targetLanguage>>,
                  Message("translation",
                          [text |-> text, sourceLanguage |-> sourceLanguage,
                           targetLanguage |-> targetLanguage]))

\* changeLanguage(language)
SfuChangeLanguage(language) ==
  IF currentRoom = Null THEN ReturnEarly("changeLanguage", <<language>>)
  ELSE EmitOneWay("changeLanguage", <<language>>,
                  Message("language-change", [language |-> language]))

\* setParticipantSpeaking(speaking)
SfuSetParticipantSpeaking(speaking) ==
  IF currentRoom = Null THEN ReturnEarly("setParticipantSpeaking", <<speaking>>)
  ELSE EmitOneWay("setParticipantSpeaking", <<speaking>>,
                  Message("participant-speaking", [speaking |-> speaking]))

\* playParticipantTranslation(translationData)
SfuPlayParticipantTranslation(translationData) ==
  IF currentRoom = Null THEN ReturnEarly("playParticipantTranslation", <<translationData>>)
  ELSE EmitOneWay("playParticipantTranslation", <<translationData>>,
                  Message("participant-translation-play", translationData))

\* the nine negotiation calls, with the arguments the application gives
NegotiationCall ==
  \/ \E roomId \in RouterRoomIds : SfuGetRouterCapabilities(roomId)
  \/ SfuSetRtpCapabilities("caps-1")
  \/ \E direction \in Directions : SfuCreateTransport(direction)
  \/ SfuConnectTransport("transport-1", "dtls-1")
  \/ SfuCreateProducer("transport-1", "audio", "rtp-1", Null)
  \/ SfuCreateConsumer("user-2", "producer-1")
  \/ SfuPauseProducer("producer-1")
  \/ SfuResumeProducer("producer-1")
  \/ SfuCloseProducer("producer-1")
  \/ SfuGetRoomParticipants

\* the acknowledgement of a negotiation request arrives
NegotiationAck(i, response) ==
  \/ SfuGetRouterCapabilitiesAck(i, response)
  \/ SfuSetRtpCapabilitiesAck(i, response)
  \/ SfuCreateTransportAck(i, response)
  \/ SfuConnectTransportAck(i, response)
  \/ SfuCreateProducerAck(i, response)
  \/ SfuCreateConsumerAck(i, response)
  \/ SfuPauseProducerAck(i, response)
  \/ SfuResumeProducerAck(i, response)
  \/ SfuCloseProducerAck(i, response)
  \/ SfuGetRoomParticipantsAck(i, response)

\* the eight notifications
Notification ==
  \/ SfuSetAudioState("true")
  \/ SfuSetVideoState("true")
  \/ SfuSendChatMessage("hello")
  \/ SfuBroadcastTranscript("hello", Null, Null)
  \/ SfuSendTranslation("hola", "en", "es")
  \/ SfuChangeLanguage("es")
  \/ SfuSetParticipantSpeaking("true")
  \/ SfuPlayParticipantTranslation([audio |-> "clip-1"])

\* the application awaits at most MaxInFlight calls at a time
NegotiationNext ==
  \/ Len(pending) < MaxInFlight /\ SfuConnect
  \/ \E i \in 1..Len(pending), response \in ClientResponses : SfuConnectAck(i, response)
  \/ \E a \in ClientJoinArgs : Len(pending) < MaxInFlight /\ SfuJoinRoom(a[1], a[2], a[3])
  \/ \E i \in 1..Len(pending), response \in Responses : SfuJoinAck(i, response)
  \/ Len(pending) < MaxInFlight /\ SfuLeaveRoom
  \/ \E i \in 1..Len(pending), response \in ClientResponses : SfuLeaveAck(i, response)
  \/ Len(pending) < MaxInFlight /\ NegotiationCall
  \/ \E i \in 1..Len(pending), response \in NegotiationResponses : NegotiationAck(i, response)
  \/ Notification

SpecNegotiation == SfuInit /\ [][NegotiationNext]_vars

\* ------------------------------------------------------------------------
\* WebvoxClient
\* ------------------------------------------------------------------------
\* io(serverUrl, {auth: {apiKey}}): a socket that is opening, the promise
\* of the connect() call that made it, and the session call that awaits
\* that promise while it is pending
NewSocket(key) ==
  [status |-> "opening", auth |-> key, promise |-> "pending", by |-> "connect"]

\* the place of the next socket: a socket closed by socket.disconnect()
\* never acts again and its place is taken first
NextSocket(ss) ==
  LET free == {i \in 1..Len(ss) : ss[i].status = "closed"}
  IN IF free = {} THEN Len(ss) + 1
     ELSE CHOOSE i \in free : \A j \in free : i <= j

\* the sockets after io() has made the socket sock
Io(ss, sock) ==
  IF NextSocket(ss) <= Len(ss) THEN [ss EXCEPT ![NextSocket(ss)] = sock]
  ELSE Append(ss, sock)

\* this.socket.connected
SocketConnected(s) == sockets[s].status = "open"

\* resolve() or reject() of a promise: the first one settles it
Settle(promise, outcome) == IF promise = "pending" THEN outcome ELSE promise

\* no room-manager call or callback was the last step
NoCall ==
  [op |-> "none", req |-> NoRequest, response |-> NoResponse, settled |-> "none",
   value |-> Null, error |-> NoError, trace |-> <<>>,
   pre |-> [isConnected |-> FALSE, currentRoom |-> Null, currentParticipantId |-> Null,
            eventHandlers |-> EmptyMap,
            socketListeners |-> [e \in Range(SFU_EVENTS) |-> <<>>],
            pending |-> <<>>, events |-> EmptyMap]]

\* new ValidationError(message)
ValidationError(message) == [type |-> "ValidationError", message |-> message, service |-> Null]

\* new WebvoxClient({apiKey: key}) without autoConnect: the constructor
\* throws on an empty key and there is no session object (its apiKey field
\* is then written null here); otherwise the fields are the initial ones
Construct(key) ==
  /\ socket = NoSocket
  /\ wvIsConnected = FALSE
  /\ sfu = NoSfu
  /\ sockets = <<>>
  /\ IF key = ""
     THEN /\ apiKey = Null
          /\ clast = [NoClientCall EXCEPT
                        !.op = "new",
                        !.error = ValidationError("API key is required. Please provide an API key in the config.")]
     ELSE /\ apiKey = key
          /\ clast = NoClientCall

\* the constructor returned a session object
Constructed == apiKey # Null

ClientInit ==
  /\ events = EmptyMap
  /\ elast = Did("new", "a", NoFn, 0, TRUE, <<>>, Idle)
  /\ SfuConstructed
  /\ slast = NoCall
  /\ \E key \in ApiKeys : Construct(key)

\* ClientConnect with a fault: the test for an open session is missing
ClientConnect_NoGuard ==
  /\ Constructed
  /\ IF apiKey = ""
     THEN /\ clast' = CDid("connect", NoSocket, "rejected",
                           ConnectionError("No API key provided. Please provide an API key in the config.",
                                           "Auth"), <<>>)
          /\ UNCHANGED <<socket, sockets>>
     ELSE /\ NextSocket(sockets) <= MaxSockets
          /\ sockets' = Io(sockets, NewSocket(apiKey))
          /\ socket' = NextSocket(sockets)
          /\ clast' = CDid("connect", NextSocket(sockets), "pending", NoError, <<"io">>)
  /\ slast' = NoCall
  /\ UNCHANGED <<wvIsConnected, sfu, apiKey, events, elast, sfuFields>>

\* ClientConnect with a fault: the test for an apiKey is missing
ClientConnect_NoKeyTest ==
  /\ Constructed
  /\ IF wvIsConnected /\ socket # NoSocket /\ SocketConnected(socket)
     THEN /\ clast' = CDid("connect", socket, "resolved", NoError, <<>>)
          /\ UNCHANGED <<socket, sockets>>
     ELSE /\ NextSocket(sockets) <= MaxSockets
          /\ sockets' = Io(sockets, NewSocket(apiKey))
          /\ socket' = NextSocket(sockets)
          /\ clast' = CDid("connect", NextSocket(sockets), "pending", NoError, <<"io">>)
  /\ slast' = NoCall
  /\ UNCHANGED <<wvIsConnected, sfu, apiKey, events, elast, sfuFields>>

\* connect()
ClientConnect ==
  /\ Constructed
  /\ IF wvIsConnected /\ socket # NoSocket /\ SocketConnected(socket)
     THEN /\ clast' = CDid("connect", socket, "resolved", NoError, <<>>)
          /\ UNCHANGED <<socket, sockets>>
     ELSE IF apiKey = ""
     THEN /\ clast' = CDid("connect", NoSocket, "rejected",
                           ConnectionError("No API key provided. Please provide an API key in the config.",
                                           "Auth"), <<>>)
          /\ UNCHANGED <<socket, sockets>>
     ELSE /\ NextSocket(sockets) <= MaxSockets
          /\ sockets' = Io(sockets, NewSocket(apiKey))
          /\ socket' = NextSocket(sockets)
          /\ clast' = CDid("connect", NextSocket(sockets), "pending", NoError, <<"io">>)
  /\ slast' = NoCall
  /\ UNCHANGED <<wvIsConnected, sfu, apiKey, events, elast, sfuFields>>

\* the 'connect' listener of socket s: the socket s has opened, at first or
\* after the transport was lost; a room manager made here starts with the
\* fields of its constructor, on a socket that holds none of its listeners
SocketOnConnect(s) ==
  /\ sockets[s].status \in {"opening", "down"}
  /\ sockets' = [sockets EXCEPT ![s].status = "open",
                                ![s].promise = Settle(@, "resolved"),
                                ![s].by = "none"]
  /\ wvIsConnected' = TRUE
  /\ clast' = CDid("onConnect", s, Settle(sockets[s].promise, "resolved"), NoError,
                   IF sfu = NoSfu THEN <<"new SFUManager">> ELSE <<>>)
  /\ slast' = NoCall
  /\ IF sfu = NoSfu
     THEN /\ sfu' = NewSfu(socket)
          /\ isConnected' = FALSE
          /\ currentRoom' = Null
          /\ currentParticipantId' = Null
          /\ eventHandlers' = EmptyMap
          /\ socketListeners' = [e \in Range(SFU_EVENTS) |-> <<>>]
          /\ pending' = <<>>
          /\ events' = EmptyMap
     ELSE UNCHANGED <<sfu, events, sfuFields>>
  /\ UNCHANGED <<socket, apiKey, elast>>

\* SocketOnConnectError with a fault: isConnected is left as it was
SocketOnConnectError_KeepsFlag(s, message) ==
  /\ sockets[s].status \in {"opening", "down"}
  /\ sockets' = [sockets EXCEPT ![s].promise = Settle(@, "rejected"),
                                ![s].by = "none"]
  /\ clast' = CDid("onConnectError", s, Settle(sockets[s].promise, "rejected"),
                   ConnectionError(message, "Socket.IO"), <<>>)
  /\ slast' = NoCall
  /\ UNCHANGED <<socket, wvIsConnected, sfu, apiKey, events, elast, sfuFields>>

\* the 'connect_error' listener of socket s
SocketOnConnectError(s, message) ==
  /\ sockets[s].status \in {"opening", "down"}
  /\ sockets' = [sockets EXCEPT ![s].promise = Settle(@, "rejected"),
                                ![s].by = "none"]
  /\ wvIsConnected' = FALSE
  /\ clast' = CDid("onConnectError", s, Settle(sockets[s].promise, "rejected"),
                   ConnectionError(message, "Socket.IO"), <<>>)
  /\ slast' = NoCall
  /\ UNCHANGED <<socket, sfu, apiKey, events, elast, sfuFields>>

\* SocketOnDisconnect with a fault: the room manager is dropped as well
SocketOnDisconnect_DropsSfu(s) ==
  /\ sockets[s].status = "open"
  /\ sockets' = [sockets EXCEPT ![s].status = "down"]
  /\ wvIsConnected' = FALSE
  /\ sfu' = NoSfu
  /\ clast' = CDid("onDisconnect", s, sockets[s].promise, NoError, <<>>)
  /\ slast' = NoCall
  /\ UNCHANGED <<socket, apiKey, events, elast, sfuFields>>

\* the 'disconnect' listener of socket s: the transport of an open socket
\* is lost
SocketOnDisconnect(s) ==
  /\ sockets[s].status = "open"
  /\ sockets' = [sockets EXCEPT ![s].status = "down"]
  /\ wvIsConnected' = FALSE
  /\ clast' = CDid("onDisconnect", s, sockets[s].promise, NoError, <<>>)
  /\ slast' = NoCall
  /\ UNCHANGED <<socket, sfu, apiKey, events, elast, sfuFields>>

\* ClientDisconnect with a fault: the socket is closed before the room
\* manager is asked to disconnect
ClientDisconnect_SocketFirst ==
  /\ Constructed
  /\ IF socket = NoSocket
     THEN /\ clast' = CDid("disconnect", NoSocket, "none", NoError, <<>>)
          /\ slast' = NoCall
          /\ UNCHANGED <<socket, wvIsConnected, sfu, apiKey, sockets, events, elast, sfuFields>>
     ELSE /\ IF sfu # NoSfu /\ isConnected
             THEN /\ DisconnectManager
                  /\ clast' = CDid("disconnect", socket, "none", NoError,
                                   <<"socket.disconnect", "sfu.disconnect">>)
             ELSE /\ clast' = CDid("disconnect", socket, "none", NoError,
                                   <<"socket.disconnect">>)
                  /\ slast' = NoCall
                  /\ UNCHANGED <<events, isConnected, currentRoom, currentParticipantId,
                                 eventHandlers, socketListeners>>
          /\ sockets' = [sockets EXCEPT ![socket].status = "closed"]
          /\ socket' = NoSocket
          /\ wvIsConnected' = FALSE
          /\ sfu' = NoSfu
          /\ pending' = <<>>
          /\ UNCHANGED <<apiKey, elast>>

\* ClientDisconnect with a fault: the sfu field is not reset
ClientDisconnect_KeepsSfu ==
  /\ Constructed
  /\ IF socket = NoSocket
     THEN /\ clast' = CDid("disconnect", NoSocket, "none", NoError, <<>>)
          /\ slast' = NoCall
          /\ UNCHANGED <<socket, wvIsConnected, sfu, apiKey, sockets, events, elast, sfuFields>>
     ELSE /\ IF sfu # NoSfu /\ isConnected
             THEN /\ DisconnectManager
                  /\ clast' = CDid("disconnect", socket, "none", NoError,
                                   <<"sfu.disconnect", "socket.disconnect">>)
             ELSE /\ clast' = CDid("disconnect", socket, "none", NoError,
                                   <<"socket.disconnect">>)
                  /\ slast' = NoCall
                  /\ UNCHANGED <<events, isConnected, currentRoom, currentParticipantId,
                                 eventHandlers, socketListeners>>
          /\ sockets' = [sockets EXCEPT ![socket].status = "closed"]
          /\ socket' = NoSocket
          /\ wvIsConnected' = FALSE
          /\ UNCHANGED <<sfu, pending, apiKey, elast>>

\* disconnect(): with a socket, the room manager that believes itself
\* connected is disconnected, then the socket is closed and the three
\* fields are reset; the requests of the manager the session has dropped
\* are followed no further
ClientDisconnect ==
  /\ Constructed
  /\ IF socket = NoSocket
     THEN /\ clast' = CDid("disconnect", NoSocket, "none", NoError, <<>>)
          /\ slast' = NoCall
          /\ UNCHANGED <<socket, wvIsConnected, sfu, apiKey, sockets, events, elast, sfuFields>>
     ELSE /\ IF sfu # NoSfu /\ isConnected
             THEN /\ DisconnectManager
                  /\ clast' = CDid("disconnect", socket, "none", NoError,
                                   <<"sfu.disconnect", "socket.disconnect">>)
             ELSE /\ clast' = CDid("disconnect", socket, "none", NoError,
                                   <<"socket.disconnect">>)
                  /\ slast' = NoCall
                  /\ UNCHANGED <<events, isConnected, currentRoom, currentParticipantId,
                                 eventHandlers, socketListeners>>
          /\ sockets' = [sockets EXCEPT ![socket].status = "closed"]
          /\ socket' = NoSocket
          /\ wvIsConnected' = FALSE
          /\ sfu' = NoSfu
          /\ pending' = <<>>
          /\ UNCHANGED <<apiKey, elast>>

\* reconnect(): disconnect(), then connect(); after disconnect() the socket
\* is null, so the test of connect() for an open session is false and
\* connect() goes on to the apiKey test
ClientReconnect ==
  LET had == socket # NoSocket
      callsManager == had /\ sfu # NoSfu /\ isConnected
      closed == IF had THEN [sockets EXCEPT ![socket].status = "closed"] ELSE sockets
      calls == IF callsManager THEN <<"sfu.disconnect", "socket.disconnect">>
               ELSE IF had THEN <<"socket.disconnect">> ELSE <<>>
  IN /\ Constructed
     /\ IF callsManager
        THEN DisconnectManager
        ELSE /\ slast' = NoCall
             /\ UNCHANGED <<events, isConnected, currentRoom, currentParticipantId,
                            eventHandlers, socketListeners>>
     /\ pending' = IF had THEN <<>> ELSE pending
     /\ wvIsConnected' = IF had THEN FALSE ELSE wvIsConnected
     /\ sfu' = IF had THEN NoSfu ELSE sfu
     /\ IF apiKey = ""
        THEN /\ clast' = CDid("reconnect", NoSocket, "rejected",
                              ConnectionError("No API key provided. Please provide an API key in the config.",
                                              "Auth"), calls)
             /\ sockets' = closed
             /\ socket' = NoSocket
        ELSE /\ NextSocket(closed) <= MaxSockets
             /\ sockets' = Io(closed, [NewSocket(apiKey) EXCEPT !.by = "reconnect"])
             /\ socket' = NextSocket(closed)
             /\ clast' = CDid("reconnect", NextSocket(closed), "pending", NoError,
                              Append(calls, "io"))
     /\ UNCHANGED <<apiKey, elast>>

\* the application replaces config.apiKey
ClientSetApiKey(key) ==
  /\ Constructed
  /\ key # apiKey
  /\ apiKey' = key
  /\ clast' = CDid("setApiKey", NoSocket, "none", NoError, <<>>)
  /\ slast' = NoCall
  /\ UNCHANGED <<socket, wvIsConnected, sfu, sockets, events, elast, sfuFields>>

\* the application uses the session's room manager, which holds a socket,
\* and awaits each call before it makes the next; an acknowledgement
\* reaches the manager over its socket while that socket is open
ClientSfu ==
  /\ sfu # NoSfu
  /\ sfu.socket # NoSocket
  /\ \/ pending = <<>> /\ SfuConnect
     \/ \E i \in 1..Len(pending), response \in ClientResponses :
          SocketConnected(sfu.socket) /\ SfuConnectAck(i, response)
     \/ \E a \in ClientJoinArgs :
          pending = <<>> /\ SfuJoinRoom(a[1], a[2], a[3])
     \/ \E i \in 1..Len(pending), response \in ClientResponses :
          SocketConnected(sfu.socket) /\ SfuJoinAck(i, response)

ClientNext ==
  \/ ClientConnect
  \/ \E s \in 1..Len(sockets) : SocketOnConnect(s)
  \/ \E s \in 1..Len(sockets), message \in TransportMessages : SocketOnConnectError(s, message)
  \/ \E s \in 1..Len(sockets) : SocketOnDisconnect(s)
  \/ ClientDisconnect
  \/ ClientReconnect
  \/ ClientSfu

SpecClient == ClientInit /\ [][ClientNext]_vars

\* the session while the application changes config.apiKey and leaves the
\* room manager alone
CredentialNext ==
  \/ ClientConnect
  \/ \E s \in 1..Len(sockets) : SocketOnConnect(s)
  \/ \E s \in 1..Len(sockets), message \in TransportMessages : SocketOnConnectError(s, message)
  \/ \E s \in 1..Len(sockets) : SocketOnDisconnect(s)
  \/ ClientDisconnect
  \/ ClientReconnect
  \/ \E key \in LaterApiKeys : ClientSetApiKey(key)

SpecCredential == ClientInit /\ [][CredentialNext]_vars

\* ------------------------------------------------------------------------
\* HttpClient
\* ------------------------------------------------------------------------
\* error.status of an error that has no status property
NoStatus == -1

\* no body, no decoded payload, no data property
NoBody == [none |-> TRUE]

\* the null that request() returns for a no-content response
NullValue == [null |-> TRUE]

\* response.ok
Ok(status) == status >= 200 /\ status <= 299

\* an Error as request() throws it, with its status and data properties
HttpError(type, message, status, data) ==
  [type |-> type, message |-> message, status |-> status, data |-> data]

\* what fetch(url, config) comes to: it throws a TypeError with the
\* platform's message, or it returns a response with a status and a body
\* that is JSON or is not
FetchOutcomes ==
  {[kind |-> "throws", message |-> m, status |-> NoStatus, json |-> FALSE, body |-> NoBody] :
     m \in FetchFailures}
  \cup
  {[kind |-> "response", message |-> Null, status |-> st, json |-> TRUE, body |-> b] :
     st \in Statuses, b \in Bodies}
  \cup
  {[kind |-> "response", message |-> Null, status |-> st, json |-> FALSE, body |-> NoBody] :
     st \in Statuses}

\* JSON.stringify(data)
Stringify(data) == [json |-> data]

\* the headers of a request: Content-Type, and X-API-Key when getApiKey()
\* returns a key
Headers(key) ==
  IF key # Null /\ key # ""
  THEN ("Content-Type" :> "application/json") @@ ("X-API-Key" :> key)
  ELSE ("Content-Type" :> "application/json")

\* the url and config handed to fetch
FetchArgs(method, endpoint, data, key) ==
  [url |-> BaseURL \o endpoint,
   method |-> method,
   headers |-> Headers(key),
   body |-> IF data # Null /\ method \in {"POST", "PUT", "PATCH"}
            THEN Stringify(data) ELSE NoBody]

\* the try block of request(): what it returns or throws
HttpTry(outcome) ==
  IF outcome.kind = "throws"
  THEN [settled |-> "rejected", value |-> NoBody,
        error |-> HttpError("TypeError", outcome.message, NoStatus, NoBody)]
  ELSE IF outcome.status = 204
  THEN [settled |-> "resolved", value |-> NullValue, error |-> NoError]
  ELSE IF ~outcome.json
  THEN [settled |-> "rejected", value |-> NoBody,
        error |-> HttpError("SyntaxError", "Unexpected token", NoStatus, NoBody)]
  ELSE IF ~Ok(outcome.status)
  THEN [settled |-> "rejected", value |-> NoBody,
        error |-> HttpError("Error", OrElse(outcome.body.error, "Request failed"),
                            outcome.status, outcome.body)]
  ELSE [settled |-> "resolved", value |-> outcome.body, error |-> NoError]

\* the catch block of request(): an error whose message is 'Failed to
\* fetch' is replaced by the network error of status 0, any other is
\* thrown again
HttpCatch(result) ==
  IF result.settled = "rejected" /\ result.error.message = "Failed to fetch"
  THEN [result EXCEPT !.error = HttpError("Error", "Network error: Unable to connect to server",
                                          0, NoBody)]
  ELSE result

\* request(method, endpoint, data, options) with options = {}
HttpClientRequest(method, endpoint, data, outcome) ==
  LET result == HttpCatch(HttpTry(outcome))
  IN /\ Constructed
     /\ clast' = [op |-> "request", s |-> NoSocket, settled |-> result.settled,
                  error |-> result.error,
                  trace |-> <<FetchArgs(method, endpoint, data, apiKey)>>,
                  pre |-> ClientSnapshot, fetch |-> outcome, value |-> result.value]
     /\ slast' = NoCall
     /\ UNCHANGED <<clientFields, events, elast, sfuFields>>

\* get(endpoint, options)
HttpGet(endpoint, outcome) == HttpClientRequest("GET", endpoint, Null, outcome)

\* post(endpoint, data, options)
HttpPost(endpoint, data, outcome) == HttpClientRequest("POST", endpoint, data, outcome)

\* put(endpoint, data, options)
HttpPut(endpoint, data, outcome) == HttpClientRequest("PUT", endpoint, data, outcome)

\* patch(endpoint, data, options)
HttpPatch(endpoint, data, outcome) == HttpClientRequest("PATCH", endpoint, data, outcome)

\* delete(endpoint, options)
HttpDelete(endpoint, outcome) == HttpClientRequest("DELETE", endpoint, Null, outcome)

HttpNext ==
  \/ \E endpoint \in Endpoints, outcome \in FetchOutcomes : HttpGet(endpoint, outcome)
  \/ \E endpoint \in Endpoints, data \in RequestData, outcome \in FetchOutcomes :
       HttpPost(endpoint, data, outcome)
  \/ \E endpoint \in Endpoints, data \in RequestData, outcome \in FetchOutcomes :
       HttpPut(endpoint, data, outcome)
  \/ \E endpoint \in Endpoints, data \in RequestData, outcome \in FetchOutcomes :
       HttpPatch(endpoint, data, outcome)
  \/ \E endpoint \in Endpoints, outcome \in FetchOutcomes : HttpDelete(endpoint, outcome)
  \/ \E key \in LaterApiKeys : ClientSetApiKey(key)

\* the HttpClient of a session that was constructed: its getApiKey reads
\* config.apiKey
SpecHttp == ClientInit /\ [][HttpNext]_vars

\* ------------------------------------------------------------------------
\* Properties of the room manager
\* ------------------------------------------------------------------------
\* C7: currentParticipantId is non-null exactly when currentRoom is
\* non-null, in every reachable state.
C7_RoomIffParticipant ==
  (currentParticipantId # Null) <=> (currentRoom # Null)

\* C7 witness: a join acknowledged after disconnect() has set both fields
\* while a leave request is in flight
C7_Witness ==
  /\ slast.op = "joinAck"
  /\ ~isConnected
  /\ currentRoom # Null
  /\ currentParticipantId # Null
  /\ \E i \in 1..Len(slast.pre.pending) : slast.pre.pending[i].op = "leave-room"

\* C8: joinRoom called while isConnected is false rejects with a
\* ConnectionError of service 'SFU', emits no request and leaves
\* currentRoom and currentParticipantId as they were.
C8_JoinNeedsConnection ==
  (slast.op = "joinRoom" /\ ~slast.pre.isConnected) =>
    /\ slast.settled = "rejected"
    /\ slast.error.type = "ConnectionError"
    /\ slast.error.service = "SFU"
    /\ pending = slast.pre.pending
    /\ currentRoom = slast.pre.currentRoom
    /\ currentParticipantId = slast.pre.currentParticipantId

\* C8 witness: joinRoom refused while the manager is disconnected but still
\* holds a room (set by a late acknowledgement) and a request is in flight
C8_Witness ==
  /\ slast.op = "joinRoom"
  /\ ~slast.pre.isConnected
  /\ currentRoom # Null
  /\ pending # <<>>

\* C9: after a join acknowledgement that is an object without an error
\* field the getters return the room and participant of that joinRoom call
\* and the promise resolves with the payload; after leaveRoom() completes
\* both getters return null.
C9_JoinThenLeave ==
  /\ (slast.op = "joinAck" /\ Truthy(slast.response) /\ slast.response.error = Null) =>
       /\ GetCurrentRoom = slast.req.roomId
       /\ GetCurrentParticipantId = slast.req.participantId
       /\ slast.settled = "resolved"
       /\ slast.value = slast.response
  /\ (slast.op = "leaveAck" \/ (slast.op = "leaveRoom" /\ slast.settled = "resolved")) =>
       /\ GetCurrentRoom = Null
       /\ GetCurrentParticipantId = Null

\* C9 witness: the leave of a joined room is acknowledged
C9_Witness ==
  /\ slast.op = "leaveAck"
  /\ slast.pre.currentRoom \in RoomIds
  /\ slast.req.roomId = slast.pre.currentRoom
  /\ slast.req.participantId \in ParticipantIds

\* C10: leaveRoom called while currentRoom is null resolves at once, emits
\* no request and changes nothing.
C10_LeaveOutsideRoom ==
  (slast.op = "leaveRoom" /\ slast.pre.currentRoom = Null) =>
    /\ slast.settled = "resolved"
    /\ slast.req = NoRequest
    /\ Snapshot = slast.pre

\* C10 witness: leaveRoom on a connected manager that is in no room, with
\* listeners installed and a request in flight
C10_Witness ==
  /\ slast.op = "leaveRoom"
  /\ slast.pre.currentRoom = Null
  /\ isConnected
  /\ pending # <<>>
  /\ events # EmptyMap

\* C11: leaveRoom called while in a room emits one 'leave-room' request
\* carrying the current roomId and participantId; whatever its
\* acknowledgement contains, currentRoom and currentParticipantId become
\* null and the promise resolves.
C11_LeaveAlwaysClears ==
  /\ (slast.op = "leaveRoom" /\ slast.pre.currentRoom # Null) =>
       /\ slast.req = Request("leave-room", slast.pre.currentRoom,
                              slast.pre.currentParticipantId, Null)
       /\ pending = Append(slast.pre.pending, slast.req)
       /\ slast.settled = "pending"
  /\ slast.op = "leaveAck" =>
       /\ currentRoom = Null
       /\ currentParticipantId = Null
       /\ slast.settled = "resolved"

\* C11 witness: the leave of a joined room is acknowledged with an error
C11_Witness ==
  /\ slast.op = "leaveAck"
  /\ slast.response.error # Null
  /\ slast.pre.currentRoom \in RoomIds
  /\ slast.req.roomId = slast.pre.currentRoom

\* C12: a join acknowledgement that carries an error field rejects with an
\* Error whose message is the server's error string, and currentRoom and
\* currentParticipantId keep the values they had before it.
C12_JoinErrorKeepsState ==
  (slast.op = "joinAck" /\ Truthy(slast.response) /\ slast.response.error # Null) =>
    /\ slast.settled = "rejected"
    /\ slast.error = PlainError(slast.response.error)
    /\ currentRoom = slast.pre.currentRoom
    /\ currentParticipantId = slast.pre.currentParticipantId

\* C12 witness: a second join is refused by the server while the manager is
\* in the room of the first
C12_Witness ==
  /\ slast.op = "joinAck"
  /\ slast.response.error # Null
  /\ slast.pre.currentRoom \in RoomIds
  /\ slast.req.roomId # slast.pre.currentRoom
  /\ currentRoom = slast.pre.currentRoom

\* C13: in every reachable state the socket holds at most one listener of
\* the manager per catalogued server event, and a server push of event E
\* with a payload, when the listeners are installed, republishes E exactly
\* once through the relay.
C13_OneListenerPerEvent ==
  /\ \A e \in Range(SFU_EVENTS) : Len(socketListeners[e]) <= 1
  /\ (slast.op = "push" /\ slast.value # Null /\ MapHas(eventHandlers, slast.req.op)) =>
       /\ Len(slast.trace) = 1
       /\ slast.trace[1].ev = slast.req.op

\* C13 witness: a push is relayed to a subscriber when, of two connect()
\* calls issued before any acknowledgement, one is acknowledged with
\* success and the other is still in flight
C13_Witness ==
  /\ slast.op = "push"
  /\ slast.value # Null
  /\ MapHas(eventHandlers, slast.req.op)
  /\ \E i \in 1..Len(pending) : pending[i].op = "connect-sfu"
  /\ slast.trace # <<>>
  /\ slast.trace[1].invoked = 1

\* C14: connect() called while isConnected is true resolves without
\* emitting a 'connect-sfu' request and without changing the installed
\* listeners or any other state.
C14_ConnectWhenConnected ==
  (slast.op = "connect" /\ slast.pre.isConnected) =>
    /\ slast.settled = "resolved"
    /\ slast.req = NoRequest
    /\ Snapshot = slast.pre

\* C14 witness: connect() on a connected manager that is in a room, with a
\* request in flight
C14_Witness ==
  /\ slast.op = "connect"
  /\ slast.pre.isConnected
  /\ currentRoom # Null
  /\ eventHandlers # EmptyMap
  /\ pending # <<>>

\* C15: a 'connect-sfu' acknowledgement that reports failure rejects with
\* a ConnectionError of service 'SFU' whose message is the server's error
\* or the default; isConnected and the listeners are left as they were, so
\* a manager that was not connected stays so with no listener installed.
C15_ConnectFailure ==
  (slast.op = "connectAck" /\ Truthy(slast.response) /\ ~slast.response.success) =>
    /\ slast.settled = "rejected"
    /\ slast.error =
         ConnectionError(OrElse(slast.response.error, "SFU connection failed"), "SFU")
    /\ isConnected = slast.pre.isConnected
    /\ eventHandlers = slast.pre.eventHandlers
    /\ socketListeners = slast.pre.socketListeners
    /\ ~slast.pre.isConnected =>
         /\ ~isConnected
         /\ eventHandlers = EmptyMap
         /\ \A e \in DOMAIN socketListeners : socketListeners[e] = <<>>

\* C15 witness: the server refuses, with a message, the connect of a
\* manager that is not connected
C15_Witness ==
  /\ slast.op = "connectAck"
  /\ Truthy(slast.response)
  /\ ~slast.response.success
  /\ slast.response.error # Null
  /\ ~slast.pre.isConnected
  /\ slast.error.message = slast.response.error

\* C16: after disconnect() isConnected is false, currentRoom and
\* currentParticipantId are null, eventHandlers is empty, the socket holds
\* no listener of the manager and listenerCount is 0 for every event.
C16_DisconnectClearsAll ==
  slast.op = "disconnect" =>
    /\ ~isConnected
    /\ currentRoom = Null
    /\ currentParticipantId = Null
    /\ eventHandlers = EmptyMap
    /\ \A e \in DOMAIN socketListeners : socketListeners[e] = <<>>
    /\ \A e \in Range(SFU_EVENTS) : ListenerCount(events, e) = 0

\* C16 witness: disconnect() of a connected manager that was in a room, had
\* its listeners installed and a relay subscriber
C16_Witness ==
  /\ slast.op = "disconnect"
  /\ slast.pre.isConnected
  /\ slast.pre.currentRoom # Null
  /\ slast.pre.eventHandlers # EmptyMap
  /\ slast.pre.events # EmptyMap

\* C17: within disconnect() the socket listeners are removed before
\* isConnected, currentRoom and currentParticipantId are cleared: in no
\* intermediate state is one of the three fields cleared while
\* eventHandlers still holds the listeners.
C17_TeardownBeforeClear ==
  slast.op = "disconnect" =>
    \A i \in 1..Len(slast.trace) :
      (\/ slast.trace[i].isConnected # slast.pre.isConnected
       \/ slast.trace[i].currentRoom # slast.pre.currentRoom
       \/ slast.trace[i].currentParticipantId # slast.pre.currentParticipantId)
        => slast.trace[i].eventHandlers = EmptyMap

\* ------------------------------------------------------------------------
\* Properties of the session
\* ------------------------------------------------------------------------
\* the room manager's isConnected when the last session call began
ManagerWasConnected ==
  IF slast.op = "disconnect" THEN slast.pre.isConnected ELSE isConnected

\* C18: disconnect() with a socket and a room manager whose isConnected is
\* true calls the manager's disconnect() before it closes the socket; with
\* no manager, or one that is not connected, the socket is closed and the
\* manager is not called.
C18_ManagerBeforeSocket ==
  (clast.op = "disconnect" /\ clast.pre.socket # NoSocket) =>
    /\ sockets[clast.pre.socket].status = "closed"
    /\ IF clast.pre.sfu # NoSfu /\ ManagerWasConnected
       THEN /\ clast.trace = <<"sfu.disconnect", "socket.disconnect">>
            /\ slast.op = "disconnect"
            /\ ~isConnected
       ELSE /\ clast.trace = <<"socket.disconnect">>
            /\ slast.op = "none"

\* C18 witness: disconnect() of a session whose room manager is connected
\* and in a room
C18_Witness ==
  /\ clast.op = "disconnect"
  /\ clast.pre.sfu # NoSfu
  /\ slast.op = "disconnect"
  /\ slast.pre.isConnected
  /\ slast.pre.currentRoom # Null
  /\ clast.trace[1] = "sfu.disconnect"

C20_ConnectWhenOpen ==
  (/\ clast.op = "connect"
   /\ clast.pre.isConnected
   /\ clast.pre.socket # NoSocket
   /\ clast.pre.sockets[clast.pre.socket].status = "open") =>
    /\ clast.settled = "resolved"
    /\ clast.trace = <<>>
    /\ ClientSnapshot = clast.pre

\* C20 witness: connect() on an open session that has a room manager, while
\* another socket could still be opened
C20_Witness ==
  /\ clast.op = "connect"
  /\ clast.pre.isConnected
  /\ clast.pre.socket # NoSocket
  /\ clast.pre.sockets[clast.pre.socket].status = "open"
  /\ sfu # NoSfu
  /\ Len(sockets) < MaxSockets

\* C21: in every reachable state where sfu is non-null, the socket the room
\* manager was made with is the session's socket.
C21_ManagerOnSessionSocket ==
  sfu # NoSfu => sfu.socket = socket

\* C22: connect_error on a socket that has not opened rejects the promise
\* of its connect() with a ConnectionError of service 'Socket.IO' carrying
\* the transport's message, leaves isConnected false and makes no room
\* manager.
C22_ConnectErrorRejects ==
  (clast.op = "onConnectError" /\ clast.pre.sockets[clast.s].promise = "pending") =>
    /\ clast.settled = "rejected"
    /\ sockets[clast.s].promise = "rejected"
    /\ clast.error.type = "ConnectionError"
    /\ clast.error.service = "Socket.IO"
    /\ clast.error.message \in TransportMessages
    /\ ~wvIsConnected
    /\ sfu = clast.pre.sfu
    /\ "new SFUManager" \notin Range(clast.trace)

\* C22 witness: the session's only socket reports connect_error before it
\* opens
C22_Witness ==
  /\ clast.op = "onConnectError"
  /\ clast.pre.sockets[clast.s].promise = "pending"
  /\ clast.pre.sockets[clast.s].status = "opening"
  /\ clast.s = socket
  /\ sfu = NoSfu

\* C23: the 'disconnect' listener of a socket sets the session's
\* isConnected to false and changes nothing else: socket, sfu, the room
\* manager's fields, its listeners and its requests in flight are as
\* before, and no socket is opened.
C23_TransportLossOnlyClearsFlag ==
  [][clast'.op = "onDisconnect" =>
       /\ ~wvIsConnected'
       /\ UNCHANGED <<socket, sfu, apiKey, events, sfuFields>>
       /\ Len(sockets') = Len(sockets)]_vars

\* C23 witness: the transport is lost under a session whose room manager is
\* connected and in a room
C23_Witness ==
  /\ clast.op = "onDisconnect"
  /\ clast.s = socket
  /\ clast.pre.isConnected
  /\ sfu # NoSfu
  /\ isConnected
  /\ currentRoom # Null

\* C24: reconnect() performs disconnect() and then connect(); once the
\* promise of reconnect() resolves, and no later call has replaced the
\* session's socket, sfu is a room manager made after the call on the newly
\* opened socket, with isConnected false and currentRoom and
\* currentParticipantId null.
C24_ReconnectKeepsNothing ==
  /\ clast.op = "reconnect" =>
       /\ clast.pre.socket # NoSocket =>
            /\ clast.trace[Len(clast.trace) - (IF clast.settled = "pending" THEN 1 ELSE 0)]
                 = "socket.disconnect"
            /\ sfu = NoSfu
            /\ ~wvIsConnected
       /\ clast.settled = "pending" =>
            /\ clast.trace[Len(clast.trace)] = "io"
            /\ socket = clast.s
            /\ sockets[socket].status = "opening"
  /\ (/\ clast.op = "onConnect"
      /\ clast.pre.sockets[clast.s].by = "reconnect"
      /\ socket = clast.s) =>
       /\ clast.settled = "resolved"
       /\ sockets[socket].status = "open"
       /\ sfu # NoSfu
       /\ sfu.socket = socket
       /\ ~isConnected
       /\ currentRoom = Null
       /\ currentParticipantId = Null

\* the session was open when the last session call began
WasOpen ==
  /\ clast.pre.isConnected
  /\ clast.pre.socket # NoSocket
  /\ clast.pre.sockets[clast.pre.socket].status = "open"

C26_RelayUnaltered ==
  (slast.op = "push" /\ slast.pre.isConnected) =>
    IF slast.req.op \in Range(SFU_EVENTS)
    THEN /\ Len(slast.trace) = 1
         /\ slast.trace[1].ev = slast.req.op
         /\ slast.trace[1].data = slast.value
    ELSE slast.trace = <<>>

\* C29: a call of connect, joinRoom or leaveRoom that goes to the server
\* emits one request and stays pending; the arrival of the acknowledgement
\* takes that one request out of flight and settles the promise.
C29_OneRoundTrip ==
  /\ (slast.op \in {"connect", "joinRoom", "leaveRoom"} /\ slast.settled = "pending") =>
       pending = Append(slast.pre.pending, slast.req)
  /\ slast.op \in {"connectAck", "joinAck", "leaveAck"} =>
       /\ Len(pending) = Len(slast.pre.pending) - 1
       /\ slast.settled \in {"resolved", "rejected"}

\* ------------------------------------------------------------------------
\* Properties of the negotiation and of the notifications
\* ------------------------------------------------------------------------
\* C27: for each of the nine negotiation operations an acknowledgement that
\* carries an error field rejects the promise with an Error whose message
\* is the server's error string.
C27_ErrorFieldRejects ==
  (/\ slast.op \in
        {"getRouterCapabilitiesAck", "setRtpCapabilitiesAck", "createTransportAck",
         "connectTransportAck", "createProducerAck", "createConsumerAck",
         "pauseProducerAck", "resumeProducerAck", "closeProducerAck"}
   /\ Truthy(slast.response)
   /\ slast.response.error # Null) =>
    /\ slast.settled = "rejected"
    /\ slast.error = PlainError(slast.response.error)

\* C28: a notification called while currentRoom is null emits nothing; in
\* a room it emits one message, and no callback waits for an answer.
C28_NotifyOnlyInRoom ==
  slast.op \in {"setAudioState", "setVideoState", "sendChatMessage",
                "broadcastTranscript", "sendTranslation", "changeLanguage",
                "setParticipantSpeaking", "playParticipantTranslation"} =>
    /\ pending = slast.pre.pending
    /\ IF slast.pre.currentRoom = Null
       THEN slast.req = NoRequest
       ELSE slast.req # NoRequest

\* C30: createTransport(direction) emits 'create-transport' with the one
\* field type, holding the direction; an acknowledgement that is an object
\* without error field resolves the promise with that object.
C30_CreateTransportWire ==
  /\ slast.op = "createTransport" =>
       /\ slast.req = Message("create-transport", [type |-> slast.trace[1][1]])
       /\ DOMAIN slast.req.payload = {"type"}
       /\ pending = Append(slast.pre.pending, slast.req)
  /\ (/\ slast.op = "createTransportAck"
      /\ Truthy(slast.response)
      /\ slast.response.error = Null) =>
       /\ slast.settled = "resolved"
       /\ slast.value = slast.response

\* C30 witness: createTransport('recv') was acknowledged with an object
\* that carries an id
C30_Witness ==
  /\ slast.op = "createTransportAck"
  /\ slast.req.payload.type = "recv"
  /\ slast.response.id = "id-1"
  /\ slast.response.error = Null
  /\ slast.settled = "resolved"

\* C31: createProducer acknowledged with an id x resolves with exactly
\* {producerId: x}; createConsumer acknowledged with id, producerId, kind,
\* rtpParameters and type resolves with consumerId holding the id and the
\* other four fields as they came.
C31_IdRenamed ==
  /\ (slast.op = "createProducerAck" /\ Truthy(slast.response) /\ slast.response.id # Null) =>
       /\ slast.settled = "resolved"
       /\ slast.value = [producerId |-> slast.response.id]
  /\ (slast.op = "createConsumerAck" /\ Truthy(slast.response) /\ slast.response.id # Null) =>
       /\ slast.settled = "resolved"
       /\ DOMAIN slast.value = {"consumerId", "producerId", "kind", "rtpParameters", "type"}
       /\ slast.value.consumerId = slast.response.id
       /\ slast.value.producerId = slast.response.producerId
       /\ slast.value.kind = slast.response.mediaKind
       /\ slast.value.rtpParameters = slast.response.rtpParameters
       /\ slast.value.type = slast.response.type

\* C31 witness: createProducer was acknowledged with {id: 'id-1'} and no
\* error field
C31_Witness ==
  /\ slast.op = "createProducerAck"
  /\ slast.response.id = "id-1"
  /\ slast.response.error = Null
  /\ slast.settled = "resolved"

\* ------------------------------------------------------------------------
\* Properties of the request client
\* ------------------------------------------------------------------------
\* C32: a response with a non-success status and a decoded payload fails
\* with an error whose status is the response's status and whose data is
\* the payload; an error of status 0 is thrown only when fetch itself
\* failed.
C32_FailuresDisjoint ==
  clast.op = "request" =>
    /\ (clast.fetch.kind = "response" /\ clast.fetch.json /\ ~Ok(clast.fetch.status)) =>
         /\ clast.settled = "rejected"
         /\ clast.error.status = clast.fetch.status
         /\ clast.error.data = clast.fetch.body
    /\ (clast.settled = "rejected" /\ clast.error.status = 0) =>
         clast.fetch.kind = "throws"

\* the message an operation rejects with when the acknowledgement names no
\* error
DefaultMessage ==
  [joinAck |-> "Failed to join room",
   getRouterCapabilitiesAck |-> "Failed to get router capabilities",
   createTransportAck |-> "Failed to create transport",
   createProducerAck |-> "Failed to create producer",
   createConsumerAck |-> "Failed to create consumer",
   getRoomParticipantsAck |-> "Failed to get room participants"]

\* C33: an acknowledgement without payload resolves the promise of
\* setRtpCapabilities and of connectTransport, and rejects that of joinRoom,
\* getRouterCapabilities, createTransport, createProducer, createConsumer
\* and getRoomParticipants with the operation's default message; joinRoom
\* then leaves currentRoom and currentParticipantId as they were.
C33_AbsentPayload ==
  slast.response.kind = "absent" =>
    /\ slast.op \in {"setRtpCapabilitiesAck", "connectTransportAck"} =>
         slast.settled = "resolved"
    /\ slast.op \in DOMAIN DefaultMessage =>
         /\ slast.settled = "rejected"
         /\ slast.error = PlainError(DefaultMessage[slast.op])
    /\ slast.op = "joinAck" =>
         /\ currentRoom = slast.pre.currentRoom
         /\ currentParticipantId = slast.pre.currentParticipantId

\* C33 witness: setRtpCapabilities was acknowledged without payload while
\* the manager was in a room
C33_Witness ==
  /\ slast.op = "setRtpCapabilitiesAck"
  /\ slast.response.kind = "absent"
  /\ slast.pre.currentRoom # Null

\* C34: getRouterCapabilities(roomId) requests the roomId given, or the
\* current room when none is given; with neither it rejects and emits
\* nothing, as getRoomParticipants does outside a room.
C34_RoomContext ==
  /\ slast.op = "getRouterCapabilities" =>
       LET roomId == slast.trace[1][1]
           target == IF roomId # Null THEN roomId ELSE slast.pre.currentRoom
       IN IF target # Null
          THEN /\ slast.req = Message("get-router-capabilities", [roomId |-> target])
               /\ slast.settled = "pending"
               /\ pending = Append(slast.pre.pending, slast.req)
          ELSE /\ slast.settled = "rejected"
               /\ slast.error.type = "Error"
               /\ slast.req = NoRequest
               /\ pending = slast.pre.pending
  /\ (slast.op = "getRoomParticipants" /\ slast.pre.currentRoom = Null) =>
       /\ slast.settled = "rejected"
       /\ slast.error = PlainError("Not in a room")
       /\ slast.req = NoRequest
       /\ pending = slast.pre.pending

\* C34 witness: getRouterCapabilities('room-2') called in room-1
C34_Witness ==
  /\ slast.op = "getRouterCapabilities"
  /\ slast.trace[1][1] = "room-2"
  /\ slast.pre.currentRoom = "room-1"

\* C35: a catalogued server event that reaches the manager's listener is
\* republished whatever its payload, an absent payload included, and no
\* exception leaves the listener.
C35_LoggingNotLoadBearing ==
  (/\ slast.op = "push"
   /\ slast.req.op \in Range(SFU_EVENTS)
   /\ Len(slast.pre.socketListeners[slast.req.op]) > 0) =>
    /\ slast.error = NoError
    /\ Len(slast.trace) = Len(slast.pre.socketListeners[slast.req.op])
    /\ \A k \in 1..Len(slast.trace) :
         slast.trace[k].ev = slast.req.op /\ slast.trace[k].data = slast.value

\* C36: in every reachable state a manager that is in a room is connected.
C36_RoomImpliesConnected ==
  currentRoom # Null => isConnected

\* C37: an acknowledgement of connect or joinRoom that arrives right after
\* disconnect(), for a request made before it, changes none of
\* isConnected, currentRoom and currentParticipantId and installs no
\* listener.
C37_NoLateRepopulation ==
  [][(slast.op = "disconnect" /\ slast'.op \in {"connectAck", "joinAck"}) =>
       UNCHANGED <<isConnected, currentRoom, currentParticipantId, eventHandlers,
                   socketListeners>>]_vars

\* C38: a leave acknowledgement for a room other than the one the manager
\* is in by then leaves currentRoom and currentParticipantId as they are.
C38_LeaveClearsOwnRoom ==
  (/\ slast.op = "leaveAck"
   /\ slast.pre.currentRoom # Null
   /\ slast.req.roomId # slast.pre.currentRoom) =>
    /\ currentRoom = slast.pre.currentRoom
    /\ currentParticipantId = slast.pre.currentParticipantId

\* C40: in every reachable state, eventHandlers holds one entry for each of
\* the 17 catalogued events, each installed on the socket, exactly when
\* isConnected is true, and is empty, with no listener of the manager on
\* the socket, exactly when isConnected is false.
C40_ListenersIffConnected ==
  IF isConnected
  THEN /\ DOMAIN eventHandlers = Range(SFU_EVENTS)
       /\ Cardinality(DOMAIN eventHandlers) = 17
       /\ \A e \in Range(SFU_EVENTS) : socketListeners[e] = <<eventHandlers[e]>>
  ELSE /\ eventHandlers = EmptyMap
       /\ \A e \in Range(SFU_EVENTS) : socketListeners[e] = <<>>

\* C40 witness: disconnect() of a manager whose listeners were installed
\* while another connect() was still unacknowledged
C40_Witness ==
  /\ slast.op = "disconnect"
  /\ slast.pre.isConnected
  /\ slast.pre.eventHandlers # EmptyMap
  /\ pending # <<>>
  /\ ~isConnected

\* ------------------------------------------------------------------------
\* Properties of the session under superseded sockets
\* ------------------------------------------------------------------------
\* C39: in every reachable state a session without socket is in its
\* initial state (isConnected false, sfu null), so isConnected true implies
\* a socket, whatever sockets of earlier connect() calls do later.
C39_OnlyCurrentTransport ==
  /\ wvIsConnected => socket # NoSocket
  /\ socket = NoSocket => (~wvIsConnected /\ sfu = NoSfu)

====
